---- MODULE Spec2Model ----
(***************************************************************************)
(* Course-calendar generator of tools.calebc.co: the validator, the event  *)
(* expander (Generator.generateICal), the feed codec (encodeCalendar /     *)
(* decodeConfig) and the editor component that drives them.                *)
(*                                                                         *)
(* Texts are sequences of one-character strings ("2025-08-21" is the       *)
(* sequence of its ten characters), so that comparison, concatenation,     *)
(* splitting and serialisation are computed on the characters.  Literal    *)
(* texts that the program only ever writes (message and title fragments)   *)
(* are kept as single multi-character items.                               *)
(***************************************************************************)
EXTENDS Integers, Sequences, FiniteSets, TLC

VARIABLES
    calendar,          \* Generator.calendar
    errors,            \* Generator.errors
    ical,              \* Generator.ical: NullFeed or the stored feed
    generateWarnings,  \* Generator.generateWarnings
    runs,              \* generateICal runs suspended at the await of encodeCalendar
    last,              \* what the latest generateICal start did (bookkeeping)
    ended,             \* how the latest generateICal run to resume ended (bookkeeping)
    started,           \* init() has run
    edits,             \* the editor operations so far, by name (bookkeeping)
    toast,             \* the message toaster.show displayed last
    excel,             \* the parseExcelCalendar call: its position, locals and result
    parsing,           \* the parseMeetingPattern call: its argument and what it returned
    importWarnings,    \* Generator.importWarnings
    registry,          \* the value of academicCalendars, the objects of data.ts
    shared             \* for the terms of calendar.terms, by place, the registry object each one is

vars ==
    <<calendar, errors, ical, generateWarnings, runs, last, ended, started, edits, toast,
      excel, parsing, importWarnings, registry, shared>>

----------------------------------------------------------------------------
(* Characters and texts *)

\* printable ASCII, code 32 first
AsciiChars ==
    <<" ", "!", "\"", "#", "$", "%", "&", "'", "(", ")", "*", "+", ",", "-",
      ".", "/", "0", "1", "2", "3", "4", "5", "6", "7", "8", "9", ":", ";",
      "<", "=", ">", "?", "@", "A", "B", "C", "D", "E", "F", "G", "H", "I",
      "J", "K", "L", "M", "N", "O", "P", "Q", "R", "S", "T", "U", "V", "W",
      "X", "Y", "Z", "[", "\\", "]", "^", "_", "<grave>", "a", "b", "c", "d", "e",
      "f", "g", "h", "i", "j", "k", "l", "m", "n", "o", "p", "q", "r", "s",
      "t", "u", "v", "w", "x", "y", "z", "{", "|", "}", "~">>

CharSet == {AsciiChars[i] : i \in 1..Len(AsciiChars)}

\* code unit of a character
CodeOf == [c \in CharSet |-> 31 + (CHOOSE i \in 1..Len(AsciiChars) : AsciiChars[i] = c)]

CharOf(code) == AsciiChars[code - 31]

Null == <<"<null>">>
Undefined == <<"<undefined>">>

\* a JS string is truthy unless empty; null and undefined are falsy
Truthy(s) == s # <<>> /\ s # Null /\ s # Undefined

RECURSIVE StrLess(_, _)
\* a < b on strings: by code unit, a proper prefix is smaller
StrLess(a, b) ==
    IF b = <<>> THEN FALSE
    ELSE IF a = <<>> THEN TRUE
    ELSE IF a[1] # b[1] THEN CodeOf[a[1]] < CodeOf[b[1]]
    ELSE StrLess(Tail(a), Tail(b))

RECURSIVE StripSpaces(_)
\* s.replaceAll(space, empty)
StripSpaces(s) ==
    IF s = <<>> THEN <<>>
    ELSE IF s[1] = " " THEN StripSpaces(Tail(s))
    ELSE <<s[1]>> \o StripSpaces(Tail(s))

IsSpace(c) == c = " "

RECURSIVE TrimStart(_)
TrimStart(s) == IF s # <<>> /\ IsSpace(s[1]) THEN TrimStart(Tail(s)) ELSE s

RECURSIVE TrimEnd(_)
TrimEnd(s) ==
    IF s # <<>> /\ IsSpace(s[Len(s)]) THEN TrimEnd(SubSeq(s, 1, Len(s) - 1)) ELSE s

\* s.trim()
Trim(s) == TrimEnd(TrimStart(s))

Digit(n) == AsciiChars[17 + n]
DigitVal(c) == CodeOf[c] - 48
IsDigit(c) == c \in CharSet /\ CodeOf[c] >= 48 /\ CodeOf[c] <= 57

\* n written with exactly w digits, zero-padded
Pad(n, w) == [k \in 1..w |-> Digit((n \div (10 ^ (w - k))) % 10)]

----------------------------------------------------------------------------
(* Calendar dates: a UTCDate at midnight is the number of days since       *)
(* 1970-01-01                                                              *)

\* an Invalid Date: below every date
Invalid == 0 - 1000000

DaysOfShifted(yy, mp, d) ==
    (yy \div 400) * 146097
        + (yy % 400) * 365 + (yy % 400) \div 4 - (yy % 400) \div 100
        + (153 * mp + 2) \div 5 + d - 1
        - 719468

\* the day number of year y, month m, day d
DaysFromCivil(y, m, d) ==
    DaysOfShifted(IF m <= 2 THEN y - 1 ELSE y, IF m > 2 THEN m - 3 ELSE m + 9, d)

\* the date of a month-shifted year: month mp counted from March, day of year doy
CivilOfShifted(y, mp, doy) ==
    << y + (IF mp < 10 THEN 0 ELSE 1),
       IF mp < 10 THEN mp + 3 ELSE mp - 9,
       doy - (153 * mp + 2) \div 5 + 1 >>

CivilOfYear(y, doy) == CivilOfShifted(y, (5 * doy + 2) \div 153, doy)

CivilOfEra(era, doe, yoe) ==
    CivilOfYear(yoe + era * 400, doe - (365 * yoe + yoe \div 4 - yoe \div 100))

CivilOfDoe(era, doe) ==
    CivilOfEra(era, doe, (doe - doe \div 1460 + doe \div 36524 - doe \div 146096) \div 365)

CivilOfShiftedDays(zz) == CivilOfDoe(zz \div 146097, zz % 146097)

\* <<year, month, day>> of the day number z
CivilFromDays(z) == CivilOfShiftedDays(z + 719468)

IsIsoDate(s) ==
    /\ Len(s) = 10
    /\ s[5] = "-" /\ s[8] = "-"
    /\ \A k \in {1, 2, 3, 4, 6, 7, 9, 10} : IsDigit(s[k])

Num2(s, p) == DigitVal(s[p]) * 10 + DigitVal(s[p + 1])

\* the day number of y-m-d when that is a date of the calendar
DayNumber(y, m, d, days) ==
    IF m \in 1..12 /\ d \in 1..31 /\ CivilFromDays(days) = <<y, m, d>> THEN days ELSE Invalid

\* new UTCDate('yyyy-MM-dd'): midnight UTC of that date, Invalid Date for a text
\* that is no date
UTCDate(s) ==
    IF ~IsIsoDate(s) THEN Invalid
    ELSE DayNumber(Num2(s, 1) * 100 + Num2(s, 3), Num2(s, 6), Num2(s, 9),
                   DaysFromCivil(Num2(s, 1) * 100 + Num2(s, 3), Num2(s, 6), Num2(s, 9)))

FormatCivil(c) == Pad(c[1], 4) \o <<"-">> \o Pad(c[2], 2) \o <<"-">> \o Pad(c[3], 2)

\* formatDate(d, 'yyyy-MM-dd')
FormatDate(z) == FormatCivil(CivilFromDays(z))

\* d.getDay(): 0 = Sunday .. 6 = Saturday (1970-01-01 was a Thursday)
GetDay(z) == (z + 4) % 7

\* toIcsDate(d)
toIcsDate(z) == CivilFromDays(z)

\* toIcsTime(d, 'HH:mm')
toIcsTime(z, time) == CivilFromDays(z) \o <<Num2(time, 1), Num2(time, 4)>>

weekdayToString(w) ==
    << <<"Sunday">>, <<"Monday">>, <<"Tuesday">>, <<"Wednesday">>,
       <<"Thursday">>, <<"Friday">>, <<"Saturday">> >>[w + 1]

----------------------------------------------------------------------------
(* Domain model (types.ts): Calendar, CalendarTerm, CalendarCourse,        *)
(* CalendarSection, MeetingPattern, CalendarDate as records; arrays as     *)
(* sequences; an optional property that is absent is an absent field       *)

NoClassType == <<"n", "o", "-", "c", "l", "a", "s", "s">>
FollowType == <<"f", "o", "l", "l", "o", "w">>

\* special.hidden, undefined when the property is absent
HiddenOf(special) == IF "hidden" \in DOMAIN special THEN special.hidden ELSE FALSE

\* special.reason, undefined when the property is absent
ReasonOf(special) == IF "reason" \in DOMAIN special THEN special.reason ELSE Undefined

Cond(c, msg) == IF c THEN <<msg>> ELSE <<>>

RECURSIVE Flat(_)
\* the concatenation of a sequence of sequences
Flat(ss) == IF ss = <<>> THEN <<>> ELSE ss[1] \o Flat(Tail(ss))

\* '#' + (index + 1), index counted from 0 in the code and from 1 here
Positional(index) == <<"#", ToString(index)>>

----------------------------------------------------------------------------
(* validate(calendar) *)

TermName(term, index) == IF Truthy(term.id) THEN term.id ELSE Positional(index)

\* the course's name in messages: the fallback takes the index of the term loop
CourseName(course, index) == IF Truthy(course.number) THEN course.number ELSE Positional(index)

SubsectionName(subsection, index) ==
    IF Truthy(subsection.name) THEN subsection.name ELSE Positional(index)

\* SpecialDateErrors with the weekday test made only for dates inside the range
SpecialDateErrorsInRange(term, tn, special) ==
    LET pre == <<"Term ">> \o tn
    IN  IF ~Truthy(special.date)
        THEN << pre \o <<": missing/invalid date">> >>
        ELSE IF StrLess(special.date, term.start)
        THEN << pre \o <<": special date ">> \o special.date \o <<" before term start">> >>
        ELSE IF StrLess(term.end, special.date)
        THEN << pre \o <<": special date ">> \o special.date \o <<" after term end">> >>
        ELSE Cond(special.type = FollowType
                    /\ UTCDate(special.date) # Invalid
                    /\ GetDay(UTCDate(special.date)) = special.weekday,
                  pre \o <<": special date ">> \o special.date
                      \o <<" does nothing (already a ">>
                      \o weekdayToString(special.weekday) \o <<")">>)

\* SpecialDateErrors without the test against term.end
SpecialDateErrorsNoEnd(term, tn, special) ==
    LET pre == <<"Term ">> \o tn
    IN  IF ~Truthy(special.date)
        THEN << pre \o <<": missing/invalid date">> >>
        ELSE (IF StrLess(special.date, term.start)
              THEN << pre \o <<": special date ">> \o special.date \o <<" before term start">> >>
              ELSE <<>>)
             \o Cond(special.type = FollowType
                        /\ UTCDate(special.date) # Invalid
                        /\ GetDay(UTCDate(special.date)) = special.weekday,
                     pre \o <<": special date ">> \o special.date
                         \o <<" does nothing (already a ">>
                         \o weekdayToString(special.weekday) \o <<")">>)

SpecialDateErrors(term, tn, special) ==
    LET pre == <<"Term ">> \o tn
    IN  IF ~Truthy(special.date)
        THEN << pre \o <<": missing/invalid date">> >>
        ELSE (IF StrLess(special.date, term.start)
              THEN << pre \o <<": special date ">> \o special.date \o <<" before term start">> >>
              ELSE IF StrLess(term.end, special.date)
              THEN << pre \o <<": special date ">> \o special.date \o <<" after term end">> >>
              ELSE <<>>)
             \o Cond(special.type = FollowType
                        /\ UTCDate(special.date) # Invalid
                        /\ GetDay(UTCDate(special.date)) = special.weekday,
                     pre \o <<": special date ">> \o special.date
                         \o <<" does nothing (already a ">>
                         \o weekdayToString(special.weekday) \o <<")">>)

\* MeetingPatternErrors without the comparison of the two times
MeetingPatternErrorsNoOrder(pre, mp) ==
    Cond(~Truthy(mp.startTime), pre \o <<": missing/invalid start time">>)
    \o Cond(~Truthy(mp.endTime), pre \o <<": missing/invalid end time">>)
    \o Cond(Len(mp.weekdays) = 0, pre \o <<": no weekdays selected">>)

MeetingPatternErrors(pre, mp) ==
    Cond(~Truthy(mp.startTime), pre \o <<": missing/invalid start time">>)
    \o Cond(~Truthy(mp.endTime), pre \o <<": missing/invalid end time">>)
    \o Cond(Truthy(mp.startTime) /\ Truthy(mp.endTime) /\ StrLess(mp.endTime, mp.startTime),
            pre \o <<": start > end">>)
    \o Cond(Len(mp.weekdays) = 0, pre \o <<": no weekdays selected">>)

SubsectionErrors(cpre, subsection, index) ==
    LET pre == cpre \o <<", component ">> \o SubsectionName(subsection, index)
    IN  Cond(~Truthy(subsection.name), pre \o <<": missing/invalid name">>)
        \o Flat([k \in 1..Len(subsection.meetingPatterns) |->
                    MeetingPatternErrors(pre, subsection.meetingPatterns[k])])

ExceptErrors(term, pre, special) ==
    IF ~Truthy(special)
    THEN << pre \o <<": missing/invalid special date">> >>
    ELSE IF StrLess(special, term.start)
    THEN << pre \o <<": special date ">> \o special \o <<" before term start">> >>
    ELSE IF StrLess(term.end, special)
    THEN << pre \o <<": special date ">> \o special \o <<" after term end">> >>
    ELSE <<>>

CourseErrors(term, tn, course, index) ==
    LET pre == <<"Term ">> \o tn \o <<", course ">> \o CourseName(course, index)
    IN  Cond(~Truthy(course.number), pre \o <<": missing/invalid number">>)
        \o Cond(~Truthy(course.name), pre \o <<": missing/invalid name">>)
        \o Flat([k \in 1..Len(course.meetingPatterns) |->
                    MeetingPatternErrors(pre, course.meetingPatterns[k])])
        \o Flat([k \in 1..Len(course.subsections) |->
                    SubsectionErrors(pre, course.subsections[k], k)])
        \o Flat([k \in 1..Len(course.except) |-> ExceptErrors(term, pre, course.except[k])])

\* TermErrors returning at the first error of the term
TermErrorsEarlyExit(cal, index) ==
    LET term == cal.terms[index]
        tn   == TermName(term, index)
        pre  == <<"Term ">> \o tn
        termNames == {cal.terms[k].id : k \in 1..(index - 1)}
        all == Cond(~Truthy(term.id), pre \o <<": missing/invalid name">>)
               \o Cond(term.id \in termNames, pre \o <<": duplicate name">>)
               \o Cond(~Truthy(term.start), pre \o <<": missing/invalid start date">>)
               \o Cond(~Truthy(term.end), pre \o <<": missing/invalid end date">>)
               \o Cond(Truthy(term.start) /\ Truthy(term.end) /\ StrLess(term.end, term.start),
                       pre \o <<": start > end">>)
               \o Flat([k \in 1..Len(term.dates) |-> SpecialDateErrors(term, tn, term.dates[k])])
               \o Flat([k \in 1..Len(term.courses) |-> CourseErrors(term, tn, term.courses[k], index)])
    IN  SubSeq(all, 1, IF Len(all) > 1 THEN 1 ELSE Len(all))

TermErrors(cal, index) ==
    LET term == cal.terms[index]
        tn   == TermName(term, index)
        pre  == <<"Term ">> \o tn
        termNames == {cal.terms[k].id : k \in 1..(index - 1)}
    IN  Cond(~Truthy(term.id), pre \o <<": missing/invalid name">>)
        \o Cond(term.id \in termNames, pre \o <<": duplicate name">>)
        \o Cond(~Truthy(term.start), pre \o <<": missing/invalid start date">>)
        \o Cond(~Truthy(term.end), pre \o <<": missing/invalid end date">>)
        \o Cond(Truthy(term.start) /\ Truthy(term.end) /\ StrLess(term.end, term.start),
                pre \o <<": start > end">>)
        \o Flat([k \in 1..Len(term.dates) |-> SpecialDateErrors(term, tn, term.dates[k])])
        \o Flat([k \in 1..Len(term.courses) |-> CourseErrors(term, tn, term.courses[k], index)])

MeetingPatternWarnings(title, message, mp) ==
    Cond(~Truthy(mp.location), [title |-> title, message |-> message])

SubsectionWarnings(cn, tn, subsection) ==
    LET tail == <<"[object Object]", " of course ">> \o cn \o <<" in term ">> \o tn
    IN  Cond(Len(subsection.meetingPatterns) = 0,
             [title |-> <<"No meeting patterns for component ">> \o tail,
              message |-> <<"Add a meeting pattern for this component, if applicable. It will be ignored otherwise.">>])
        \o Flat([k \in 1..Len(subsection.meetingPatterns) |->
                    MeetingPatternWarnings(<<"Missing location for component ">> \o tail,
                                           <<"Add a location for this component, if applicable.">>,
                                           subsection.meetingPatterns[k])])

CourseWarnings(tn, course, index) ==
    LET cn == CourseName(course, index)
        tail == cn \o <<" in term ">> \o tn
    IN  Cond(Len(course.meetingPatterns) = 0,
             [title |-> <<"No meeting patterns for course ">> \o tail,
              message |-> <<"Add a meeting pattern for this course, if applicable. It will be ignored otherwise.">>])
        \o Flat([k \in 1..Len(course.meetingPatterns) |->
                    MeetingPatternWarnings(<<"Missing location for course ">> \o tail,
                                           <<"Add a location for this course, if applicable.">>,
                                           course.meetingPatterns[k])])
        \o Flat([k \in 1..Len(course.subsections) |->
                    SubsectionWarnings(cn, tn, course.subsections[k])])

TermWarnings(cal, index) ==
    LET term == cal.terms[index]
    IN  Flat([k \in 1..Len(term.courses) |->
                CourseWarnings(TermName(term, index), term.courses[k], index)])

validate(cal) ==
    [errors |->
        Cond(Len(cal.terms) = 0, <<"No terms defined.">>)
        \o Cond(\A k \in 1..Len(cal.terms) : Len(cal.terms[k].courses) = 0,
                <<"No courses defined.">>)
        \o Flat([k \in 1..Len(cal.terms) |-> TermErrors(cal, k)]),
     warnings |-> Flat([k \in 1..Len(cal.terms) |-> TermWarnings(cal, k)])]

----------------------------------------------------------------------------
(* Event expansion of Generator.generateICal.  An event is the             *)
(* EventAttributes record handed to the feed writer; its src field is      *)
(* bookkeeping that records which term, date and course produced it.       *)

\* the cap on the number of dates walked
MaxDates == 1000

Includes(seq, x) == \E k \in 1..Len(seq) : seq[k] = x

Src(ti, d, kind, ci, si, k) ==
    [term |-> ti, date |-> d, kind |-> kind, course |-> ci, sub |-> si, mp |-> k]

NoClassEvent(special, ti, d) ==
    [uid |-> <<"course-calendar-">> \o special.date \o <<"-no-class@tools.calebc.co">>,
     start |-> toIcsDate(d),
     end |-> toIcsDate(d + 1),
     title |-> IF Truthy(ReasonOf(special))
               THEN <<"No Classes (">> \o special.reason \o <<")">>
               ELSE <<"No Classes">>,
     location |-> Undefined,
     src |-> Src(ti, d, "no-class", 0, 0, 0)]

FollowEvent(special, ti, d) ==
    [uid |-> <<"course-calendar-">> \o special.date \o <<"-follow@tools.calebc.co">>,
     start |-> toIcsDate(d),
     end |-> toIcsDate(d + 1),
     title |-> <<"Follow ">> \o weekdayToString(special.weekday) \o <<" Schedule">>,
     location |-> Undefined,
     src |-> Src(ti, d, "follow", 0, 0, 0)]

\* NoClassScan without the continue: the date goes on to the courses
NoClassScanNoSkip(special, e, uids, weekday) ==
    [skip |-> FALSE, weekday |-> weekday,
     events |-> Cond(e.uid \notin uids /\ ~HiddenOf(special), e)]

\* NoClassScan without the test of special.hidden
NoClassScanShowsHidden(special, e, uids, weekday) ==
    [skip |-> TRUE, weekday |-> weekday, events |-> Cond(e.uid \notin uids, e)]

\* what the scan of term.dates leaves behind at a no-class entry
NoClassScan(special, e, uids, weekday) ==
    [skip |-> TRUE, weekday |-> weekday,
     events |-> Cond(e.uid \notin uids /\ ~HiddenOf(special), e)]

\* FollowScan without the substitution: the date keeps its own weekday
FollowScanNatural(special, e, uids) ==
    [skip |-> FALSE, weekday |-> GetDay(e.src.date), events |-> Cond(e.uid \notin uids, e)]

\* what the scan of term.dates leaves behind at a follow entry
FollowScan(special, e, uids) ==
    [skip |-> FALSE, weekday |-> special.weekday, events |-> Cond(e.uid \notin uids, e)]

RECURSIVE ScanSpecialNoBreak(_, _, _, _, _, _)
\* ScanSpecial without the break after a follow entry: the scan goes on to the
\* later entries of the same date
ScanSpecialNoBreak(term, ti, d, k, uids, weekday) ==
    IF k > Len(term.dates)
    THEN [skip |-> FALSE, weekday |-> weekday, events |-> <<>>]
    ELSE IF term.dates[k].date # FormatDate(d)
    THEN ScanSpecialNoBreak(term, ti, d, k + 1, uids, weekday)
    ELSE IF term.dates[k].type = NoClassType
    THEN NoClassScan(term.dates[k], NoClassEvent(term.dates[k], ti, d), uids, weekday)
    ELSE IF term.dates[k].type = FollowType
    THEN LET here == FollowScan(term.dates[k], FollowEvent(term.dates[k], ti, d), uids)
             rest == ScanSpecialNoBreak(term, ti, d, k + 1,
                                        uids \cup {FollowEvent(term.dates[k], ti, d).uid},
                                        here.weekday)
         IN  [skip |-> rest.skip, weekday |-> rest.weekday,
              events |-> here.events \o rest.events]
    ELSE ScanSpecialNoBreak(term, ti, d, k + 1, uids, weekday)

RECURSIVE ScanSpecial(_, _, _, _, _, _)
\* the loop over term.dates for the date d, from entry k on: whether the date
\* is skipped (continue outer), the weekday to expand and the events pushed
ScanSpecial(term, ti, d, k, uids, weekday) ==
    IF k > Len(term.dates)
    THEN [skip |-> FALSE, weekday |-> weekday, events |-> <<>>]
    ELSE IF term.dates[k].date # FormatDate(d)
    THEN ScanSpecial(term, ti, d, k + 1, uids, weekday)
    ELSE IF term.dates[k].type = NoClassType
    THEN NoClassScan(term.dates[k], NoClassEvent(term.dates[k], ti, d), uids, weekday)
    ELSE IF term.dates[k].type = FollowType
    THEN FollowScan(term.dates[k], FollowEvent(term.dates[k], ti, d), uids)
    ELSE ScanSpecial(term, ti, d, k + 1, uids, weekday)

MeetingEvent(course, mp, d, uid, title, src) ==
    [uid |-> uid,
     start |-> toIcsTime(d, mp.startTime),
     end |-> toIcsTime(d, mp.endTime),
     title |-> title,
     location |-> IF Truthy(mp.location) THEN mp.location ELSE Undefined,
     src |-> src]

SubsectionEvents(course, ti, ci, si, d, weekday) ==
    LET subsection == course.subsections[si]
    IN  Flat([k \in 1..Len(subsection.meetingPatterns) |->
            LET mp == subsection.meetingPatterns[k]
            IN  Cond(Includes(mp.weekdays, weekday),
                     MeetingEvent(course, mp, d,
                        <<"course-calendar-">> \o StripSpaces(course.number) \o <<"-">>
                            \o StripSpaces(subsection.name) \o <<"-">> \o FormatDate(d)
                            \o <<"@tools.calebc.co">>,
                        course.number \o <<" - ">> \o course.name \o <<" (">>
                            \o subsection.name \o <<")">>,
                        Src(ti, d, "subsection", ci, si, k)))])

CourseEvents(term, ti, ci, d, weekday) ==
    LET course == term.courses[ci]
    IN  Flat([k \in 1..Len(course.meetingPatterns) |->
            LET mp == course.meetingPatterns[k]
            IN  Cond(Includes(mp.weekdays, weekday),
                     MeetingEvent(course, mp, d,
                        <<"course-calendar-">> \o StripSpaces(course.number) \o <<"-">>
                            \o FormatDate(d) \o <<"@tools.calebc.co">>,
                        course.number \o <<" - ">> \o course.name,
                        Src(ti, d, "course", ci, 0, k)))])
        \o Flat([si \in 1..Len(course.subsections) |->
                    SubsectionEvents(course, ti, ci, si, d, weekday)])

\* the rest of the loop body once term.dates has been scanned
AfterScan(term, ti, d, scan) ==
    IF scan.skip
    THEN scan.events
    ELSE scan.events
         \o Flat([ci \in 1..Len(term.courses) |-> CourseEvents(term, ti, ci, d, scan.weekday)])

\* one pass of the loop body for the date d of a term
DayEvents(term, ti, d) == AfterScan(term, ti, d, ScanSpecial(term, ti, d, 1, {}, GetDay(d)))

\* DaysBetween with the end date left out
DaysBetweenExclusive(s, e) == IF s = Invalid \/ e = Invalid \/ e < s THEN 0 ELSE e - s

\* the number of dates from s to e
DaysBetween(s, e) == IF s = Invalid \/ e = Invalid \/ e < s THEN 0 ELSE e - s + 1

\* the number of passes of the date loop of a term: d from start while
\* d is before end + 1; none when either is an Invalid Date
TermDays(term) == DaysBetween(UTCDate(term.start), UTCDate(term.end))

RECURSIVE FlatRange(_, _, _, _, _)
\* the events of the dates start+lo-1 .. start+hi-1 of a term, in date order
FlatRange(term, ti, start, lo, hi) ==
    IF lo > hi THEN <<>>
    ELSE IF lo = hi THEN DayEvents(term, ti, start + lo - 1)
    ELSE FlatRange(term, ti, start, lo, (lo + hi) \div 2)
         \o FlatRange(term, ti, start, (lo + hi) \div 2 + 1, hi)

RECURSIVE ExpandFrom(_, _, _, _)
\* ExpandTerm with the cap tested as i >= MaxDates
ExpandTermOffByOne(cal, ti, n, i, events) ==
    IF i + n >= MaxDates
    THEN [aborted |-> TRUE, i |-> MaxDates,
          events |-> events \o FlatRange(cal.terms[ti], ti, UTCDate(cal.terms[ti].start),
                                         1, MaxDates - 1 - i)]
    ELSE ExpandFrom(cal, ti + 1, i + n,
                    events \o FlatRange(cal.terms[ti], ti, UTCDate(cal.terms[ti].start), 1, n))

\* the dates of term ti, n of them, walked with the counter at i
ExpandTerm(cal, ti, n, i, events) ==
    IF i + n > MaxDates
    THEN [aborted |-> TRUE, i |-> MaxDates + 1,
          events |-> events \o FlatRange(cal.terms[ti], ti, UTCDate(cal.terms[ti].start),
                                         1, MaxDates - i)]
    ELSE ExpandFrom(cal, ti + 1, i + n,
                    events \o FlatRange(cal.terms[ti], ti, UTCDate(cal.terms[ti].start), 1, n))

\* the loop over the terms from term ti on, entered with counter i and the
\* events pushed so far: i is incremented once per date, and the run is
\* aborted on the date that takes it past MaxDates
ExpandFrom(cal, ti, i, events) ==
    IF ti > Len(cal.terms)
    THEN [aborted |-> FALSE, i |-> i, events |-> events]
    ELSE ExpandTerm(cal, ti, TermDays(cal.terms[ti]), i, events)

Expand(cal) == ExpandFrom(cal, 1, 0, <<>>)

----------------------------------------------------------------------------
(* Feed codec: encodeCalendar is JSON.stringify, TextEncoder, gzip,        *)
(* unpadded base64url; decodeConfig is the way back.  JSON texts are       *)
(* written and parsed character by character.                              *)

\* the property names of the domain model, as texts
KeyText ==
    [name |-> <<"n", "a", "m", "e">>,
     terms |-> <<"t", "e", "r", "m", "s">>,
     id |-> <<"i", "d">>,
     start |-> <<"s", "t", "a", "r", "t">>,
     end |-> <<"e", "n", "d">>,
     courses |-> <<"c", "o", "u", "r", "s", "e", "s">>,
     dates |-> <<"d", "a", "t", "e", "s">>,
     number |-> <<"n", "u", "m", "b", "e", "r">>,
     meetingPatterns |-> <<"m", "e", "e", "t", "i", "n", "g", "P", "a", "t", "t", "e", "r", "n", "s">>,
     except |-> <<"e", "x", "c", "e", "p", "t">>,
     subsections |-> <<"s", "u", "b", "s", "e", "c", "t", "i", "o", "n", "s">>,
     startTime |-> <<"s", "t", "a", "r", "t", "T", "i", "m", "e">>,
     endTime |-> <<"e", "n", "d", "T", "i", "m", "e">>,
     weekdays |-> <<"w", "e", "e", "k", "d", "a", "y", "s">>,
     location |-> <<"l", "o", "c", "a", "t", "i", "o", "n">>,
     date |-> <<"d", "a", "t", "e">>,
     type |-> <<"t", "y", "p", "e">>,
     reason |-> <<"r", "e", "a", "s", "o", "n">>,
     hidden |-> <<"h", "i", "d", "d", "e", "n">>,
     weekday |-> <<"w", "e", "e", "k", "d", "a", "y">>]

Q == "\""

RECURSIVE Escape(_)
\* the body of a JSON string literal: quotation mark and backslash escaped
Escape(s) ==
    IF s = <<>> THEN <<>>
    ELSE (IF s[1] = Q \/ s[1] = "\\" THEN <<"\\", s[1]>> ELSE <<s[1]>>) \o Escape(Tail(s))

JsonString(s) == <<Q>> \o Escape(s) \o <<Q>>

\* a string or null
JsonStringOrNull(s) == IF s = Null THEN <<"n", "u", "l", "l">> ELSE JsonString(s)

JsonBool(b) == IF b THEN <<"t", "r", "u", "e">> ELSE <<"f", "a", "l", "s", "e">>

RECURSIVE JsonNat(_)
\* a natural number in decimal
JsonNat(n) == IF n < 10 THEN <<Digit(n)>> ELSE JsonNat(n \div 10) \o <<Digit(n % 10)>>

RECURSIVE Join(_)
\* the items separated by commas
Join(items) ==
    IF items = <<>> THEN <<>>
    ELSE IF Len(items) = 1 THEN items[1]
    ELSE items[1] \o <<",">> \o Join(Tail(items))

JsonArray(items) == <<"[">> \o Join(items) \o <<"]">>

Member(key, text) == JsonString(KeyText[key]) \o <<":">> \o text

JsonObject(members) == <<"{">> \o Join(members) \o <<"}">>

StringifyMeetingPattern(mp) ==
    JsonObject(<< Member("startTime", JsonString(mp.startTime)),
                  Member("endTime", JsonString(mp.endTime)),
                  Member("weekdays", JsonArray([k \in 1..Len(mp.weekdays) |-> JsonNat(mp.weekdays[k])])),
                  Member("location", JsonStringOrNull(mp.location)) >>)

StringifyPatterns(mps) == JsonArray([k \in 1..Len(mps) |-> StringifyMeetingPattern(mps[k])])

StringifyTexts(ts) == JsonArray([k \in 1..Len(ts) |-> JsonString(ts[k])])

StringifySubsection(sub) ==
    JsonObject(<< Member("name", JsonString(sub.name)),
                  Member("meetingPatterns", StringifyPatterns(sub.meetingPatterns)),
                  Member("except", StringifyTexts(sub.except)) >>)

StringifyCourse(course) ==
    JsonObject(<< Member("name", JsonString(course.name)),
                  Member("number", JsonString(course.number)),
                  Member("meetingPatterns", StringifyPatterns(course.meetingPatterns)),
                  Member("except", StringifyTexts(course.except)),
                  Member("subsections",
                         JsonArray([k \in 1..Len(course.subsections) |->
                                        StringifySubsection(course.subsections[k])])) >>)

\* StringifyDate that leaves the hidden flag out
StringifyDateNoHidden(special) ==
    JsonObject(<< Member("date", JsonString(special.date)),
                  Member("type", JsonString(special.type)) >>
               \o Cond("reason" \in DOMAIN special, Member("reason", JsonString(ReasonOf(special))))
               \o Cond("weekday" \in DOMAIN special, Member("weekday", JsonNat(special.weekday))))

\* an override date: a property that is absent is not written
StringifyDate(special) ==
    JsonObject(<< Member("date", JsonString(special.date)),
                  Member("type", JsonString(special.type)) >>
               \o Cond("reason" \in DOMAIN special, Member("reason", JsonString(ReasonOf(special))))
               \o Cond("hidden" \in DOMAIN special, Member("hidden", JsonBool(HiddenOf(special))))
               \o Cond("weekday" \in DOMAIN special, Member("weekday", JsonNat(special.weekday))))

StringifyTerm(term) ==
    JsonObject(<< Member("id", JsonString(term.id)),
                  Member("start", JsonString(term.start)),
                  Member("end", JsonString(term.end)),
                  Member("courses",
                         JsonArray([k \in 1..Len(term.courses) |-> StringifyCourse(term.courses[k])])),
                  Member("dates",
                         JsonArray([k \in 1..Len(term.dates) |-> StringifyDate(term.dates[k])])) >>)

\* JSON.stringify(calendar)
JSONStringify(cal) ==
    JsonObject(<< Member("name", JsonString(cal.name)),
                  Member("terms",
                         JsonArray([k \in 1..Len(cal.terms) |-> StringifyTerm(cal.terms[k])])) >>)

(* JSON.parse: values are texts, naturals, booleans, Null, sequences and   *)
(* records; a text that is no JSON of this vocabulary is a parse error     *)

Fail == [ok |-> FALSE, val |-> <<>>, pos |-> 0]

Ok(val, pos) == [ok |-> TRUE, val |-> val, pos |-> pos]

\* the character at position p, "" past the end
At(t, p) == IF p >= 1 /\ p <= Len(t) THEN t[p] ELSE ""

Lit(t, p, word) == p + Len(word) - 1 <= Len(t) /\ SubSeq(t, p, p + Len(word) - 1) = word

RECURSIVE ParseChars(_, _, _)
\* the rest of a string literal, after its opening quotation mark
ParseChars(t, p, acc) ==
    LET c == At(t, p)
    IN  IF c = "" THEN Fail
        ELSE IF c = Q THEN Ok(acc, p + 1)
        ELSE IF c = "\\"
        THEN (IF At(t, p + 1) \in {Q, "\\", "/"}
              THEN ParseChars(t, p + 2, Append(acc, At(t, p + 1)))
              ELSE Fail)
        ELSE ParseChars(t, p + 1, Append(acc, c))

RECURSIVE ParseNat(_, _, _)
ParseNat(t, p, acc) ==
    IF IsDigit(At(t, p)) THEN ParseNat(t, p + 1, acc * 10 + DigitVal(At(t, p))) ELSE Ok(acc, p)

RECURSIVE ParseValue(_, _)
RECURSIVE ParseElements(_, _, _)
RECURSIVE ParseMembers(_, _, _)

ParseValue(t, p) ==
    LET c == At(t, p)
    IN  IF c = Q THEN ParseChars(t, p + 1, <<>>)
        ELSE IF c = "[" THEN (IF At(t, p + 1) = "]" THEN Ok(<<>>, p + 2)
                              ELSE ParseElements(t, p + 1, <<>>))
        ELSE IF c = "{" THEN (IF At(t, p + 1) = "}" THEN Ok(<<>>, p + 2)
                              ELSE ParseMembers(t, p + 1, <<>>))
        ELSE IF IsDigit(c) THEN ParseNat(t, p, 0)
        ELSE IF Lit(t, p, <<"t", "r", "u", "e">>) THEN Ok(TRUE, p + 4)
        ELSE IF Lit(t, p, <<"f", "a", "l", "s", "e">>) THEN Ok(FALSE, p + 5)
        ELSE IF Lit(t, p, <<"n", "u", "l", "l">>) THEN Ok(Null, p + 4)
        ELSE Fail

\* the elements of an array, after "[" or ","
ParseElements(t, p, acc) ==
    LET r == ParseValue(t, p)
    IN  IF ~r.ok THEN Fail
        ELSE IF At(t, r.pos) = "," THEN ParseElements(t, r.pos + 1, Append(acc, r.val))
        ELSE IF At(t, r.pos) = "]" THEN Ok(Append(acc, r.val), r.pos + 1)
        ELSE Fail

\* the members of an object, after "{" or ",": a repeated name keeps the last value
ParseMembers(t, p, acc) ==
    IF At(t, p) # Q THEN Fail
    ELSE LET k == ParseChars(t, p + 1, <<>>)
         IN  IF ~k.ok \/ At(t, k.pos) # ":" \/ \A key \in DOMAIN KeyText : KeyText[key] # k.val
             THEN Fail
             ELSE LET key == CHOOSE key \in DOMAIN KeyText : KeyText[key] = k.val
                      v == ParseValue(t, k.pos + 1)
                  IN  IF ~v.ok THEN Fail
                      ELSE IF At(t, v.pos) = ","
                      THEN ParseMembers(t, v.pos + 1, (key :> v.val) @@ acc)
                      ELSE IF At(t, v.pos) = "}"
                      THEN Ok((key :> v.val) @@ acc, v.pos + 1)
                      ELSE Fail

JSONParse(t) ==
    LET r == ParseValue(t, 1)
    IN  IF r.ok /\ r.pos = Len(t) + 1 THEN [ok |-> TRUE, val |-> r.val]
        ELSE [ok |-> FALSE, val |-> <<"SyntaxError">>]

(* TextEncoder / TextDecoder on the ASCII range *)

TextEncode(text) == [k \in 1..Len(text) |-> CodeOf[text[k]]]

TextDecode(bytes) ==
    IF \A k \in 1..Len(bytes) : bytes[k] >= 32 /\ bytes[k] <= 126
    THEN [ok |-> TRUE, val |-> [k \in 1..Len(bytes) |-> CharOf(bytes[k])]]
    ELSE [ok |-> FALSE, val |-> <<"SyntaxError">>]

(* CompressionStream('gzip') / DecompressionStream('gzip'): a gzip member  *)
(* with one stored block; the check value stands for the CRC-32            *)

GzipHeader == <<31, 139, 8, 0, 0, 0, 0, 0, 0, 255>>

Le(n, w) == [k \in 1..w |-> (n \div (256 ^ (k - 1))) % 256]

FromLe(bytes, p, w) ==
    LET RECURSIVE go(_)
        go(k) == IF k > w THEN 0 ELSE bytes[p + k - 1] * (256 ^ (k - 1)) + go(k + 1)
    IN  go(1)

RECURSIVE CheckRange(_, _, _)
CheckRange(bytes, lo, hi) ==
    IF lo > hi THEN 0
    ELSE IF lo = hi THEN (bytes[lo] * (1 + (lo % 251))) % 65521
    ELSE LET mid == (lo + hi) \div 2
         IN  (CheckRange(bytes, lo, mid) + CheckRange(bytes, mid + 1, hi)) % 65521

Check(bytes) == CheckRange(bytes, 1, Len(bytes))

Gzip(bytes) ==
    LET n == Len(bytes)
    IN  GzipHeader \o <<1>> \o Le(n, 2) \o Le(65535 - n, 2) \o bytes
        \o Le(Check(bytes), 4) \o Le(n, 4)

Gunzip(bytes) ==
    LET h == Len(GzipHeader)
        bad == [ok |-> FALSE, val |-> <<"TypeError">>]
    IN  IF Len(bytes) < h + 5 + 8 \/ SubSeq(bytes, 1, 3) # SubSeq(GzipHeader, 1, 3)
        THEN bad
        ELSE LET n == FromLe(bytes, h + 2, 2)
                 data == SubSeq(bytes, h + 6, h + 5 + n)
             IN  IF /\ bytes[h + 1] = 1
                    /\ FromLe(bytes, h + 4, 2) = 65535 - n
                    /\ Len(bytes) = h + 5 + n + 8
                    /\ FromLe(bytes, h + 6 + n, 4) = Check(data)
                    /\ FromLe(bytes, h + 10 + n, 4) = n
                 THEN [ok |-> TRUE, val |-> data]
                 ELSE bad

(* Uint8Array toBase64 / fromBase64 with the base64url alphabet *)

\* the base64url character of a 6-bit value
UrlChar(v) ==
    IF v < 26 THEN CharOf(65 + v)
    ELSE IF v < 52 THEN CharOf(97 + v - 26)
    ELSE IF v < 62 THEN CharOf(48 + v - 52)
    ELSE IF v = 62 THEN "-" ELSE "_"

UrlChars == {UrlChar(v) : v \in 0..63}

UrlValue == [c \in UrlChars |-> CHOOSE v \in 0..63 : UrlChar(v) = c]

\* rawBase64URLEncode: three bytes to four characters, no padding
rawBase64URLEncode(bytes) ==
    LET n == Len(bytes)
        outLen == (n \div 3) * 4 + (IF n % 3 = 0 THEN 0 ELSE (n % 3) + 1)
        b(i) == IF i <= n THEN bytes[i] ELSE 0
    IN  [k \in 1..outLen |->
            LET g == (k - 1) \div 4
                j == (k - 1) % 4
                v == b(3 * g + 1) * 65536 + b(3 * g + 2) * 256 + b(3 * g + 3)
            IN  UrlChar((v \div (64 ^ (3 - j))) % 64)]

\* the text without the padding a complete last group may carry
Unpadded(text) ==
    LET m == Len(text)
    IN  IF m % 4 = 0 /\ m >= 2 /\ text[m] = "=" /\ text[m - 1] = "="
        THEN SubSeq(text, 1, m - 2)
        ELSE IF m % 4 = 0 /\ m >= 1 /\ text[m] = "="
        THEN SubSeq(text, 1, m - 1)
        ELSE text

\* rawBase64URLDecode: throws on undefined, on a character outside the
\* alphabet and on a last group of one character
rawBase64URLDecode(base64) ==
    IF base64 = Undefined THEN [ok |-> FALSE, val |-> <<"TypeError">>]
    ELSE LET text == Unpadded(base64)
             m == Len(text)
             n == (m \div 4) * 3 + (IF m % 4 = 0 THEN 0 ELSE (m % 4) - 1)
             s(i) == IF i <= m THEN UrlValue[text[i]] ELSE 0
         IN  IF m % 4 = 1 \/ \E k \in 1..m : text[k] \notin UrlChars
             THEN [ok |-> FALSE, val |-> <<"SyntaxError">>]
             ELSE [ok |-> TRUE,
                   val |-> [k \in 1..n |->
                        LET g == (k - 1) \div 3
                            j == (k - 1) % 3
                            v == s(4 * g + 1) * 262144 + s(4 * g + 2) * 4096
                                    + s(4 * g + 3) * 64 + s(4 * g + 4)
                        IN  (v \div (256 ^ (2 - j))) % 256]]

\* encodeCalendar(calendar), when no stage throws
encodeCalendar(cal) == rawBase64URLEncode(Gzip(TextEncode(JSONStringify(cal))))

\* decodeConfig(base64): the parsed value, or the Error of the stage that threw
decodeConfig(base64) ==
    LET b == rawBase64URLDecode(base64)
    IN  IF ~b.ok THEN [ok |-> FALSE, val |-> b.val]
        ELSE LET z == Gunzip(b.val)
             IN  IF ~z.ok THEN [ok |-> FALSE, val |-> z.val]
                 ELSE LET t == TextDecode(z.val)
                      IN  IF ~t.ok THEN [ok |-> FALSE, val |-> t.val]
                          ELSE JSONParse(t.val)

----------------------------------------------------------------------------
(* Bounds of the model *)

\* days of a short term
TermSpan == 13
\* override dates of a term
MaxOverrides == 2
\* editor operations in one behaviour
MaxEdits == 2
\* terms and courses the editor may add up to
MaxTerms == 2
MaxCourses == 2

\* the rows a sheet has at most
MaxRows == 6

----------------------------------------------------------------------------
(* The Generator component *)

\* this.ical while it holds no feed
NullFeed == [null |-> TRUE]

\* createEvents(events, {calName, productId}) of the feed writer, when it
\* reports no error: the feed, by its parts
createEvents(events, calName, productId) ==
    [calName |-> calName, productId |-> productId, events |-> events]

\* ProductId with the language segment before the calendar data
ProductIdLanguageFirst(calendarData) ==
    <<"-", "/", "/", "tools.calebc.co", "/", "/", "EN", "/", "/">> \o calendarData

\* '-//tools.calebc.co//' + calendarData + '//EN'
ProductId(calendarData) ==
    <<"-", "/", "/", "tools.calebc.co", "/", "/">> \o calendarData \o <<"/", "/", "EN">>

\* this.calendar.name.trim() || 'Course Calendar'
CalName(cal) == IF Truthy(Trim(cal.name)) THEN Trim(cal.name) ELSE <<"Course Calendar">>

NoRun == [seq |-> 0, outcome |-> "none", cal |-> <<>>, i |-> 0, events |-> <<>>]

NoEnd == [seq |-> 0, cal |-> <<>>, encoded |-> FALSE, written |-> FALSE]

\* a generateICal run, by what it did: its sequence number, how it ended, the
\* calendar it read, the counter i and the events it had pushed
Run(outcome, c, i, events) ==
    [seq |-> last.seq + 1, outcome |-> outcome, cal |-> c, i |-> i, events |-> events]

\* the return of lines 318-323: the validator reported errors
Rejected(c, v) ==
    [errors |-> v.errors, generateWarnings |-> v.warnings, ical |-> NullFeed,
     suspended |-> <<>>, last |-> Run("invalid", c, 0, <<>>)]

\* the date loop has ended with the result x: the run returns at the cap, or
\* calls encodeCalendar and waits for its result enc
Walked(c, v, x, errs, ic, gw, enc) ==
    IF x.aborted
    THEN [errors |-> Append(errs, <<"too many events">>),
          generateWarnings |-> gw, ical |-> ic,
          suspended |-> <<>>, last |-> Run("aborted", c, x.i, x.events)]
    ELSE [errors |-> errs, generateWarnings |-> gw, ical |-> ic,
          suspended |-> << [events |-> x.events, warnings |-> v.warnings,
                            calendarData |-> enc, cal |-> c, seq |-> last.seq + 1] >>,
          last |-> Run("suspended", c, x.i, x.events)]

\* Generate leaving the stored feed in place when the validator reports errors
GenerateKeepsFeed(c, v, x, errs, ic, gw, enc) ==
    IF Len(v.errors) > 0
    THEN [Rejected(c, v) EXCEPT !.ical = ic]
    ELSE Walked(c, v, x, errs, ic, gw, enc)

\* Generate with an events array that outlives the run: the events of the
\* run before stay in front
GenerateKeepsEvents(c, v, x, errs, ic, gw, enc) ==
    IF Len(v.errors) > 0
    THEN Rejected(c, v)
    ELSE Walked(c, v, [x EXCEPT !.events = last.events \o @], errs, ic, gw, enc)

\* Generate treating warnings like errors
GenerateWarningsBlock(c, v, x, errs, ic, gw, enc) ==
    IF Len(v.errors) > 0 \/ Len(v.warnings) > 0
    THEN Rejected(c, v)
    ELSE Walked(c, v, x, errs, ic, gw, enc)

\* generateICal from the validation result v and the result x of the date
\* loop up to its await
Generate(c, v, x, errs, ic, gw, enc) ==
    IF Len(v.errors) > 0
    THEN Rejected(c, v)
    ELSE Walked(c, v, x, errs, ic, gw, enc)

\* generateICal up to its await, on the calendar c and the fields as they are
\* when it is called
GenerateICalStart(c, errs, ic, gw, enc) ==
    Generate(c, validate(c), Expand(c), errs, ic, gw, enc)

\* what the awaited encodeCalendar(c) can resolve to: the encoded text, or
\* the Error it returns when a stage throws
EncodeResults(c) ==
    {[ok |-> TRUE, val |-> encodeCalendar(c)], [ok |-> FALSE, val |-> <<"Error">>]}

\* the fields as a generateICal call leaves them when it returns or suspends
Assign(c, g) ==
    /\ calendar' = c
    /\ errors' = g.errors
    /\ generateWarnings' = g.generateWarnings
    /\ ical' = g.ical
    /\ runs' = runs \o g.suspended
    /\ last' = g.last

\* a handler has left the calendar as c and the fields as errs, ic, gw; the
\* calendar watcher (or init) calls generateICal before any other handler runs
ThenGenerate(c, errs, ic, gw) ==
    \E enc \in EncodeResults(c) : Assign(c, GenerateICalStart(c, errs, ic, gw, enc))

RECURSIVE SortKeyed(_)
\* a stable ascending sort of [key, val] pairs by key
SortKeyed(seq) ==
    IF seq = <<>> THEN <<>>
    ELSE LET rest == SortKeyed(Tail(seq))
             x == seq[1]
             \* x goes after the elements of rest that are smaller
             n == Cardinality({k \in 1..Len(rest) : StrLess(rest[k].key, x.key)})
         IN  SubSeq(rest, 1, n) \o <<x>> \o SubSeq(rest, n + 1, Len(rest))

\* Array.prototype.sort comparing the texts keys[a] and keys[b] of the elements
SortBy(seq, keys) ==
    LET sorted == SortKeyed([k \in 1..Len(seq) |-> [key |-> keys[k], val |-> seq[k]]])
    IN  [k \in 1..Len(sorted) |-> sorted[k].val]

SortSubsection(sub) == [sub EXCEPT !.except = SortBy(sub.except, sub.except)]

SortCourse(course) ==
    [course EXCEPT !.except = SortBy(course.except, course.except),
                   !.subsections = [k \in 1..Len(course.subsections) |->
                                        SortSubsection(course.subsections[k])]]

SortTerm(term) ==
    [term EXCEPT !.dates = SortBy(term.dates, [k \in 1..Len(term.dates) |-> term.dates[k].date]),
                 !.courses = [k \in 1..Len(term.courses) |-> SortCourse(term.courses[k])]]

\* the sorting done by init()
SortCalendar(cal) ==
    [cal EXCEPT !.terms =
        LET sorted == SortBy(cal.terms, [k \in 1..Len(cal.terms) |-> cal.terms[k].start])
        IN  [k \in 1..Len(sorted) |-> SortTerm(sorted[k])]]

\* init(): sort the persisted calendar, watch it, generate
init ==
    /\ ~started
    /\ started' = TRUE
    /\ ThenGenerate(SortCalendar(calendar), errors, ical, generateWarnings)
    /\ UNCHANGED <<edits, ended, toast, excel, parsing, importWarnings, registry, shared>>

\* the feed a run stores: the writer's value, with the run that stored it
\* (bookkeeping)
Stored(r, value) == value @@ [src |-> [seq |-> r.seq, cal |-> r.cal]]

\* a generateICal run resumes after its await: the feed writer either reports
\* an error or returns the feed
GenerateICalResume(k, writerOk) ==
    /\ runs' = SubSeq(runs, 1, k - 1) \o SubSeq(runs, k + 1, Len(runs))
    /\ IF ~runs[k].calendarData.ok
       THEN /\ errors' = Append(errors, <<"Failed to encode calendar: ">>
                                            \o runs[k].calendarData.val)
            /\ UNCHANGED <<ical, generateWarnings>>
       ELSE IF ~writerOk
       THEN /\ errors' = Append(errors, <<"feed writer error">>)
            /\ generateWarnings' = runs[k].warnings
            /\ ical' = NullFeed
       ELSE /\ errors' = <<>>
            /\ generateWarnings' = runs[k].warnings
            /\ ical' = Stored(runs[k],
                              createEvents(runs[k].events, CalName(calendar),
                                           ProductId(runs[k].calendarData.val)))
    /\ ended' = [seq |-> runs[k].seq, cal |-> runs[k].cal,
                 encoded |-> runs[k].calendarData.ok,
                 written |-> runs[k].calendarData.ok /\ writerOk]
    /\ UNCHANGED <<calendar, last, started, edits, toast, excel, parsing, importWarnings, registry, shared>>

Resume == \E k \in 1..Len(runs) : \E writerOk \in BOOLEAN : GenerateICalResume(k, writerOk)

RECURSIVE SlashesBefore(_, _)
\* the number of consecutive "/" that end right before position p
SlashesBefore(s, p) == IF p > 1 /\ s[p - 1] = "/" THEN 1 + SlashesBefore(s, p - 1) ELSE 0

\* the positions where the scan from the left finds a separator "//"
Separators(s) ==
    {p \in 1..(Len(s) - 1) : s[p] = "/" /\ s[p + 1] = "/" /\ SlashesBefore(s, p) % 2 = 0}

\* the k-th of the positions seps, 0 before the first and past the end after the last
Separator(s, seps, k) ==
    IF k = 0 THEN 0 - 1
    ELSE IF k > Cardinality(seps) THEN Len(s) + 1
    ELSE CHOOSE p \in seps : Cardinality({q \in seps : q < p}) = k - 1

SplitAt(s, seps) ==
    [k \in 1..(Cardinality(seps) + 1) |->
        SubSeq(s, Separator(s, seps, k - 1) + 2, Separator(s, seps, k) - 1)]

\* value.split('//'): the segments between the non-overlapping "//"
Split(s) == SplitAt(s, Separators(s))

\* array[index] counted from 0, undefined past the end
Element(array, index) == IF index + 1 <= Len(array) THEN array[index + 1] ELSE Undefined

\* reset()
reset ==
    /\ started
    /\ Len(edits) < MaxEdits
    /\ edits' = Append(edits, "reset")
    /\ importWarnings' = <<>>
    /\ shared' = <<>>
    /\ ThenGenerate([name |-> <<>>, terms |-> <<>>], <<>>, NullFeed, <<>>)
    /\ UNCHANGED <<started, ended, toast, excel, parsing, registry>>

\* addTerm()
addTerm ==
    /\ started
    /\ Len(edits) < MaxEdits
    /\ Len(calendar.terms) < MaxTerms
    /\ edits' = Append(edits, "addTerm")
    /\ ThenGenerate([calendar EXCEPT !.terms =
                        Append(@, [id |-> <<>>, start |-> <<>>, end |-> <<>>,
                                   courses |-> <<>>, dates |-> <<>>])],
                    errors, ical, generateWarnings)
    /\ UNCHANGED <<started, ended, toast, excel, parsing, importWarnings, registry, shared>>

emptyMeetingPattern ==
    [startTime |-> <<>>, endTime |-> <<>>, weekdays |-> <<>>, location |-> Null]

\* the object of academicCalendars that the term at place t of calendar.terms
\* is, by calendar and place, and <<>> when the term is an object of its own:
\* push(...terms) stores the objects it is given
RefOf(t) == IF t <= Len(shared) THEN shared[t] ELSE <<>>

\* calendar.terms once the object at place t has become term: every place
\* that holds the same object shows it
TermsWith(t, term) ==
    [p \in 1..Len(calendar.terms) |->
        IF p = t \/ (RefOf(t) # <<>> /\ RefOf(p) = RefOf(t)) THEN term
        ELSE calendar.terms[p]]

\* academicCalendars once the object at place t of calendar.terms has become
\* term
RegistryWith(t, term) ==
    IF RefOf(t) = <<>> THEN registry
    ELSE [registry EXCEPT ![RefOf(t)[1]].terms[RefOf(t)[2]] = term]

\* a handler has changed the term object at place t of calendar.terms into
\* term
EditTerm(t, term) ==
    /\ registry' = RegistryWith(t, term)
    /\ ThenGenerate([calendar EXCEPT !.terms = TermsWith(t, term)],
                    errors, ical, generateWarnings)

\* the references of shared, one for each of the n terms of calendar.terms
Padded(n) == [p \in 1..n |-> RefOf(p)]

\* calendar.terms.push(...academicCalendars[c].terms)
PushTemplates(c) ==
    /\ shared' = Padded(Len(calendar.terms))
                    \o [k \in 1..Len(registry[c].terms) |-> <<c, k>>]
    /\ ThenGenerate([calendar EXCEPT !.terms = @ \o registry[c].terms],
                    errors, ical, generateWarnings)

\* addDefaultTerms()
addDefaultTerms ==
    /\ started
    /\ Len(edits) < MaxEdits
    /\ edits' = Append(edits, "addDefaultTerms")
    /\ PushTemplates(1)
    /\ UNCHANGED <<started, ended, toast, excel, parsing, importWarnings, registry>>

\* addSummerTerms()
addSummerTerms ==
    /\ started
    /\ Len(edits) < MaxEdits
    /\ edits' = Append(edits, "addSummerTerms")
    /\ PushTemplates(2)
    /\ UNCHANGED <<started, ended, toast, excel, parsing, importWarnings, registry>>

\* addCourse(term), term being the t-th term of the calendar
addCourse(t) ==
    /\ started
    /\ Len(edits) < MaxEdits
    /\ Len(calendar.terms[t].courses) < MaxCourses
    /\ edits' = Append(edits, "addCourse")
    /\ EditTerm(t, [calendar.terms[t] EXCEPT !.courses =
                        Append(@, [name |-> <<>>, number |-> <<>>,
                                   meetingPatterns |-> <<emptyMeetingPattern>>,
                                   except |-> <<>>, subsections |-> <<>>])])
    /\ UNCHANGED <<started, ended, toast, excel, parsing, importWarnings, shared>>

\* addSpecialDate(term), term being the t-th term of the calendar
addSpecialDate(t) ==
    /\ started
    /\ Len(edits) < MaxEdits
    /\ edits' = Append(edits, "addSpecialDate")
    /\ EditTerm(t, [calendar.terms[t] EXCEPT !.dates =
                        Append(@, [date |-> <<>>, type |-> NoClassType, reason |-> <<>>])])
    /\ UNCHANGED <<started, ended, toast, excel, parsing, importWarnings, shared>>

\* addSubsection(course), course being the c-th course of the t-th term
addSubsection(t, c) ==
    /\ started
    /\ Len(edits) < MaxEdits
    /\ edits' = Append(edits, "addSubsection")
    /\ EditTerm(t, [calendar.terms[t] EXCEPT !.courses[c].subsections =
                        Append(@, [name |-> <<>>,
                                   meetingPatterns |-> <<emptyMeetingPattern>>,
                                   except |-> <<>>])])
    /\ UNCHANGED <<started, ended, toast, excel, parsing, importWarnings, shared>>

\* importIcs emptying calendar.terms before it looks at the decoded value
importIcsSplicesFirst(file, name) ==
    /\ started
    /\ Len(edits) < MaxEdits
    /\ edits' = Append(edits, name)
    /\ \E calendarData \in {decodeConfig(Element(Split(file.productId), 2))} :
           IF ~calendarData.ok
           THEN /\ toast' = [message |-> <<"Failed to decode calendar: ">> \o calendarData.val,
                             class |-> "error"]
                /\ calendar' = [calendar EXCEPT !.terms = <<>>]
                /\ shared' = <<>>
                /\ UNCHANGED <<errors, ical, generateWarnings, runs, last>>
           ELSE /\ toast' = [message |-> <<"Restore succeeded. Review and make any necessary changes below.">>,
                             class |-> "success"]
                /\ shared' = <<>>
                /\ ThenGenerate([calendar EXCEPT !.name = calendarData.val.name,
                                                   !.terms = calendarData.val.terms],
                                  errors, ical, generateWarnings)
    /\ UNCHANGED <<started, ended, excel, parsing, importWarnings, registry>>

\* importIcs() on a feed file the feed reader parses: the first prodid
\* property is split and decoded; a decoding error is shown and leaves
\* everything else as it is.  The name of the file goes to the history only
importIcs(file, name) ==
    /\ started
    /\ Len(edits) < MaxEdits
    /\ edits' = Append(edits, name)
    /\ \E calendarData \in {decodeConfig(Element(Split(file.productId), 2))} :
           IF ~calendarData.ok
           THEN /\ toast' = [message |-> <<"Failed to decode calendar: ">> \o calendarData.val,
                             class |-> "error"]
                /\ UNCHANGED <<calendar, errors, ical, generateWarnings, runs, last, shared>>
           ELSE /\ toast' = [message |-> <<"Restore succeeded. Review and make any necessary changes below.">>,
                             class |-> "success"]
                /\ shared' = <<>>
                /\ ThenGenerate([calendar EXCEPT !.name = calendarData.val.name,
                                                   !.terms = calendarData.val.terms],
                                  errors, ical, generateWarnings)
    /\ UNCHANGED <<started, ended, excel, parsing, importWarnings, registry>>

----------------------------------------------------------------------------
(* The calendars the component starts from: what the persisted store holds *)

----------------------------------------------------------------------------
(* Texts of the spreadsheet import.  A section title, a column label, a    *)
(* registration status or an instructional format is only ever compared    *)
(* as a whole and is kept as a single item; the cells the program takes    *)
(* apart (dates, meeting patterns, course listings, section codes) are     *)
(* sequences of characters.                                                *)

RECURSIVE SplitOn(_, _)
\* s.split(sep) for a non-empty separator: the segments between the
\* occurrences of sep found from the left
SplitOn(s, sep) ==
    IF \E p \in 1..(Len(s) - Len(sep) + 1) : SubSeq(s, p, p + Len(sep) - 1) = sep
    THEN LET p == CHOOSE q \in 1..(Len(s) - Len(sep) + 1) :
                    /\ SubSeq(s, q, q + Len(sep) - 1) = sep
                    /\ \A j \in 1..(q - 1) : SubSeq(s, j, j + Len(sep) - 1) # sep
         IN  <<SubSeq(s, 1, p - 1)>> \o SplitOn(SubSeq(s, p + Len(sep), Len(s)), sep)
    ELSE <<s>>

\* array.indexOf(x): the first index, counted from 0, or -1
IndexOf(array, x) ==
    IF \E k \in 1..Len(array) : array[k] = x
    THEN (CHOOSE k \in 1..Len(array) : array[k] = x /\ \A j \in 1..(k - 1) : array[j] # x) - 1
    ELSE 0 - 1

\* s.toLowerCase() on ASCII
ToLowerCase(s) ==
    [k \in 1..Len(s) |->
        IF s[k] \in CharSet /\ CodeOf[s[k]] >= 65 /\ CodeOf[s[k]] <= 90
        THEN CharOf(CodeOf[s[k]] + 32)
        ELSE s[k]]

\* the number a text of digits denotes
RECURSIVE NumberOfDigits(_)
NumberOfDigits(s) ==
    IF s = <<>> THEN 0 ELSE NumberOfDigits(SubSeq(s, 1, Len(s) - 1)) * 10 + DigitVal(s[Len(s)])

\* one or two digits
IsShortNumber(s) == Len(s) \in {1, 2} /\ \A k \in 1..Len(s) : IsDigit(s[k])

----------------------------------------------------------------------------
(* types.ts: parseWeekday, parseTime, parseMeetingPattern *)

\* an Error in the place of a text or of a list
AnError == <<"<Error>">>

\* the Error parseMeetingPattern returns in the place of a MeetingPattern
PatternError == [error |-> TRUE]

\* x instanceof Error, for the results of parseMeetingPattern
IsError(x) == "error" \in DOMAIN x

\* the lookup table of parseWeekday.  The table is an object literal: besides
\* its own keys a lookup finds the lower-case properties every object inherits,
\* whose values are no weekday (7 stands for them)
WeekdayTable ==
    << <<<<"s", "u", "n", "d", "a", "y">>, 0>>,
       <<<<"m", "o", "n", "d", "a", "y">>, 1>>,
       <<<<"t", "u", "e", "s", "d", "a", "y">>, 2>>,
       <<<<"w", "e", "d", "n", "e", "s", "d", "a", "y">>, 3>>,
       <<<<"t", "h", "u", "r", "s", "d", "a", "y">>, 4>>,
       <<<<"f", "r", "i", "d", "a", "y">>, 5>>,
       <<<<"s", "a", "t", "u", "r", "d", "a", "y">>, 6>>,
       <<<<"s", "u">>, 0>>, <<<<"m">>, 1>>, <<<<"t">>, 2>>, <<<<"w">>, 3>>,
       <<<<"r">>, 4>>, <<<<"f">>, 5>>, <<<<"s", "a">>, 6>>,
       <<<<"c", "o", "n", "s", "t", "r", "u", "c", "t", "o", "r">>, 7>>,
       <<<<"_", "_", "p", "r", "o", "t", "o", "_", "_">>, 7>> >>

\* parseWeekday(weekday): the weekday, -1 for the Error
parseWeekday(weekday) ==
    LET key == Trim(ToLowerCase(weekday))
    IN  IF \E k \in 1..Len(WeekdayTable) : WeekdayTable[k][1] = key
        THEN WeekdayTable[CHOOSE k \in 1..Len(WeekdayTable) : WeekdayTable[k][1] = key][2]
        ELSE 0 - 1

\* the day periods the token 'a' of date-fns accepts, lower case, with the
\* hour setHours is given for each: [ap].?\s?m.? | a | p | midnight | noon |
\* (in the|at) (morning|afternoon|evening|night)
DayPeriods ==
    LET m == {<<x>> \o dot \o sp \o <<"m">> \o end :
                x \in {"a", "p"}, dot \in {<<>>, <<".">>}, sp \in {<<>>, <<" ">>},
                end \in {<<>>, <<".">>}}
        at == {<<"i", "n", " ", "t", "h", "e", " ">>, <<"a", "t", " ">>}
    IN  [t \in {x \in m : x[1] = "a"} \cup {<<"a">>} |-> 0]
        @@ [t \in {x \in m : x[1] = "p"} \cup {<<"p">>} |-> 12]
        @@ [t \in {<<"m", "i", "d", "n", "i", "g", "h", "t">>} |-> 0]
        @@ [t \in {<<"n", "o", "o", "n">>} |-> 12]
        @@ [t \in {p \o <<"m", "o", "r", "n", "i", "n", "g">> : p \in at} |-> 4]
        @@ [t \in {p \o <<"a", "f", "t", "e", "r", "n", "o", "o", "n">> : p \in at} |-> 12]
        @@ [t \in {p \o <<"e", "v", "e", "n", "i", "n", "g">> : p \in at} |-> 17]
        @@ [t \in {p \o <<"n", "i", "g", "h", "t">> : p \in at} |-> 0]

\* parseTime(time): parse(time.trim(), 'hh:mm a', ...) formatted as 'HH:mm';
\* parse gives an Invalid Date for a text of another shape, formatDate throws
\* on it and the catch returns the Error
parseTime(time) ==
    LET t == Trim(time)
        colon == IndexOf(t, ":")
        hour == SubSeq(t, 1, colon)
        rest == SubSeq(t, colon + 2, Len(t))
        space == IndexOf(rest, " ")
        minute == SubSeq(rest, 1, space)
        period == ToLowerCase(SubSeq(rest, space + 2, Len(rest)))
    IN  IF /\ colon >= 0 /\ space >= 0
           /\ IsShortNumber(hour) /\ IsShortNumber(minute)
           /\ NumberOfDigits(hour) \in 1..12
           /\ NumberOfDigits(minute) \in 0..59
           /\ period \in DOMAIN DayPeriods
        THEN LET h == NumberOfDigits(hour)
                 isPM == DayPeriods[period] >= 12
             IN  Pad(IF isPM /\ h < 12 THEN h + 12 ELSE IF ~isPM /\ h = 12 THEN 0 ELSE h, 2)
                 \o <<":">> \o Pad(NumberOfDigits(minute), 2)
        ELSE AnError

RECURSIVE Weekdays(_, _)
\* the loop over weekdayStrings: the weekdays collected, <<-1>> for the Error
\* returned at an unknown or repeated one
Weekdays(weekdayStrings, weekdays) ==
    IF weekdayStrings = <<>> THEN weekdays
    ELSE LET weekday == parseWeekday(weekdayStrings[1])
         IN  IF weekday = 0 - 1 \/ Includes(weekdays, weekday)
             THEN <<0 - 1>>
             ELSE Weekdays(Tail(weekdayStrings), Append(weekdays, weekday))

\* parseMeetingPattern(pattern)
parseMeetingPattern(pattern) ==
    LET parts == SplitOn(pattern, <<"|">>)
        weekdays == Weekdays(SplitOn(parts[1], <<"-">>), <<>>)
        times == SplitOn(parts[2], <<"-">>)
        startTime == parseTime(times[1])
        endTime == parseTime(times[2])
    IN  IF Len(parts) # 2 /\ Len(parts) # 3 THEN PatternError
        ELSE IF weekdays = <<0 - 1>> THEN PatternError
        ELSE IF Len(times) # 2 THEN PatternError
        ELSE IF startTime = AnError \/ endTime = AnError THEN PatternError
        ELSE IF StrLess(endTime, startTime) THEN PatternError
        ELSE [startTime |-> startTime, endTime |-> endTime, weekdays |-> weekdays,
              location |-> IF Len(parts) = 3 THEN Trim(parts[3]) ELSE Null]
----------------------------------------------------------------------------
(* data.ts: the built-in academic calendars *)

ay_2025_2026 ==
    [name |-> <<"W", "P", "I", " ", "A", "Y", " ", "2", "0", "2", "5", "-", "2", "0", "2", "6">>,
     year |-> <<2025, 2026>>,
     range |-> <<UTCDate(<<"2", "0", "2", "5", "-", "0", "8", "-", "2", "1">>), UTCDate(<<"2", "0", "2", "6", "-", "0", "5", "-", "0", "6">>)>>,
     terms |-> <<
        [id |-> <<"A", "2", "5">>, start |-> <<"2", "0", "2", "5", "-", "0", "8", "-", "2", "1">>,
         dates |-> <<
                [date |-> <<"2", "0", "2", "5", "-", "0", "9", "-", "0", "1">>, type |-> NoClassType, reason |-> <<"L", "a", "b", "o", "r", " ", "D", "a", "y">>],
                [date |-> <<"2", "0", "2", "5", "-", "0", "9", "-", "0", "4">>, type |-> FollowType, weekday |-> 1],
                [date |-> <<"2", "0", "2", "5", "-", "0", "9", "-", "1", "9">>, type |-> NoClassType, reason |-> <<"W", "e", "l", "l", "n", "e", "s", "s", " ", "D", "a", "y">>]>>,
         end |-> <<"2", "0", "2", "5", "-", "1", "0", "-", "1", "0">>, courses |-> <<>>],
        [id |-> <<"B", "2", "5">>, start |-> <<"2", "0", "2", "5", "-", "1", "0", "-", "2", "0">>,
         dates |-> <<
                [date |-> <<"2", "0", "2", "5", "-", "1", "1", "-", "0", "4">>, type |-> NoClassType, reason |-> <<"W", "e", "l", "l", "n", "e", "s", "s", " ", "D", "a", "y">>],
                [date |-> <<"2", "0", "2", "5", "-", "1", "1", "-", "2", "6">>, type |-> NoClassType, reason |-> <<"T", "h", "a", "n", "k", "s", "g", "i", "v", "i", "n", "g">>],
                [date |-> <<"2", "0", "2", "5", "-", "1", "1", "-", "2", "7">>, type |-> NoClassType, reason |-> <<"T", "h", "a", "n", "k", "s", "g", "i", "v", "i", "n", "g">>],
                [date |-> <<"2", "0", "2", "5", "-", "1", "1", "-", "2", "8">>, type |-> NoClassType, reason |-> <<"T", "h", "a", "n", "k", "s", "g", "i", "v", "i", "n", "g">>],
                [date |-> <<"2", "0", "2", "5", "-", "1", "2", "-", "0", "8">>, type |-> NoClassType, reason |-> <<"R", "e", "a", "d", "i", "n", "g", " ", "D", "a", "y">>]>>,
         end |-> <<"2", "0", "2", "5", "-", "1", "2", "-", "1", "2">>, courses |-> <<>>],
        [id |-> <<"F", "2", "5">>, start |-> <<"2", "0", "2", "5", "-", "0", "8", "-", "2", "1">>,
         dates |-> <<
                [date |-> <<"2", "0", "2", "5", "-", "0", "9", "-", "0", "1">>, type |-> NoClassType, reason |-> <<"L", "a", "b", "o", "r", " ", "D", "a", "y">>],
                [date |-> <<"2", "0", "2", "5", "-", "0", "9", "-", "0", "4">>, type |-> FollowType, weekday |-> 1],
                [date |-> <<"2", "0", "2", "5", "-", "0", "9", "-", "1", "9">>, type |-> NoClassType, reason |-> <<"W", "e", "l", "l", "n", "e", "s", "s", " ", "D", "a", "y">>],
                [date |-> <<"2", "0", "2", "5", "-", "1", "0", "-", "1", "1">>, type |-> NoClassType, reason |-> <<"B", "r", "e", "a", "k">>, hidden |-> TRUE],
                [date |-> <<"2", "0", "2", "5", "-", "1", "0", "-", "1", "2">>, type |-> NoClassType, reason |-> <<"B", "r", "e", "a", "k">>, hidden |-> TRUE],
                [date |-> <<"2", "0", "2", "5", "-", "1", "0", "-", "1", "3">>, type |-> NoClassType, reason |-> <<"B", "r", "e", "a", "k">>, hidden |-> TRUE],
                [date |-> <<"2", "0", "2", "5", "-", "1", "0", "-", "1", "4">>, type |-> NoClassType, reason |-> <<"B", "r", "e", "a", "k">>, hidden |-> TRUE],
                [date |-> <<"2", "0", "2", "5", "-", "1", "0", "-", "1", "5">>, type |-> NoClassType, reason |-> <<"B", "r", "e", "a", "k">>, hidden |-> TRUE],
                [date |-> <<"2", "0", "2", "5", "-", "1", "0", "-", "1", "6">>, type |-> NoClassType, reason |-> <<"B", "r", "e", "a", "k">>, hidden |-> TRUE],
                [date |-> <<"2", "0", "2", "5", "-", "1", "0", "-", "1", "7">>, type |-> NoClassType, reason |-> <<"B", "r", "e", "a", "k">>, hidden |-> TRUE],
                [date |-> <<"2", "0", "2", "5", "-", "1", "0", "-", "1", "8">>, type |-> NoClassType, reason |-> <<"B", "r", "e", "a", "k">>, hidden |-> TRUE],
                [date |-> <<"2", "0", "2", "5", "-", "1", "0", "-", "1", "9">>, type |-> NoClassType, reason |-> <<"B", "r", "e", "a", "k">>, hidden |-> TRUE],
                [date |-> <<"2", "0", "2", "5", "-", "1", "1", "-", "0", "4">>, type |-> NoClassType, reason |-> <<"W", "e", "l", "l", "n", "e", "s", "s", " ", "D", "a", "y">>],
                [date |-> <<"2", "0", "2", "5", "-", "1", "1", "-", "2", "6">>, type |-> NoClassType, reason |-> <<"T", "h", "a", "n", "k", "s", "g", "i", "v", "i", "n", "g">>],
                [date |-> <<"2", "0", "2", "5", "-", "1", "1", "-", "2", "7">>, type |-> NoClassType, reason |-> <<"T", "h", "a", "n", "k", "s", "g", "i", "v", "i", "n", "g">>],
                [date |-> <<"2", "0", "2", "5", "-", "1", "1", "-", "2", "8">>, type |-> NoClassType, reason |-> <<"T", "h", "a", "n", "k", "s", "g", "i", "v", "i", "n", "g">>],
                [date |-> <<"2", "0", "2", "5", "-", "1", "2", "-", "0", "8">>, type |-> NoClassType, reason |-> <<"R", "e", "a", "d", "i", "n", "g", " ", "D", "a", "y">>]>>,
         end |-> <<"2", "0", "2", "5", "-", "1", "2", "-", "1", "2">>, courses |-> <<>>],
        [id |-> <<"C", "2", "6">>, start |-> <<"2", "0", "2", "6", "-", "0", "1", "-", "1", "4">>,
         dates |-> <<
                [date |-> <<"2", "0", "2", "6", "-", "0", "1", "-", "1", "4">>, type |-> FollowType, weekday |-> 1],
                [date |-> <<"2", "0", "2", "6", "-", "0", "1", "-", "1", "9">>, type |-> NoClassType, reason |-> <<"M", "L", "K", " ", "J", "r", ".", " ", "D", "a", "y">>],
                [date |-> <<"2", "0", "2", "6", "-", "0", "2", "-", "1", "3">>, type |-> NoClassType, reason |-> <<"W", "e", "l", "l", "n", "e", "s", "s", " ", "D", "a", "y">>],
                [date |-> <<"2", "0", "2", "6", "-", "0", "2", "-", "2", "6">>, type |-> NoClassType, reason |-> <<"A", "c", "a", "d", "e", "m", "i", "c", " ", "A", "d", "v", "i", "s", "i", "n", "g", " ", "D", "a", "y">>]>>,
         end |-> <<"2", "0", "2", "6", "-", "0", "3", "-", "0", "6">>, courses |-> <<>>],
        [id |-> <<"D", "2", "6">>, start |-> <<"2", "0", "2", "6", "-", "0", "3", "-", "1", "6">>,
         dates |-> <<
                [date |-> <<"2", "0", "2", "6", "-", "0", "3", "-", "3", "0">>, type |-> NoClassType, reason |-> <<"W", "e", "l", "l", "n", "e", "s", "s", " ", "D", "a", "y">>],
                [date |-> <<"2", "0", "2", "6", "-", "0", "4", "-", "0", "1">>, type |-> FollowType, weekday |-> 1],
                [date |-> <<"2", "0", "2", "6", "-", "0", "4", "-", "2", "0">>, type |-> NoClassType, reason |-> <<"P", "a", "t", "r", "i", "o", "t", "'", "s", " ", "D", "a", "y">>],
                [date |-> <<"2", "0", "2", "6", "-", "0", "4", "-", "2", "4">>, type |-> NoClassType, reason |-> <<"U", "R", "P", " ", "S", "h", "o", "w", "c", "a", "s", "e">>],
                [date |-> <<"2", "0", "2", "6", "-", "0", "5", "-", "0", "6">>, type |-> FollowType, weekday |-> 5]>>,
         end |-> <<"2", "0", "2", "6", "-", "0", "5", "-", "0", "6">>, courses |-> <<>>],
        [id |-> <<"S", "2", "6">>, start |-> <<"2", "0", "2", "6", "-", "0", "1", "-", "1", "4">>,
         dates |-> <<
                [date |-> <<"2", "0", "2", "6", "-", "0", "1", "-", "1", "4">>, type |-> FollowType, weekday |-> 1],
                [date |-> <<"2", "0", "2", "6", "-", "0", "1", "-", "1", "9">>, type |-> NoClassType, reason |-> <<"M", "L", "K", " ", "J", "r", ".", " ", "D", "a", "y">>],
                [date |-> <<"2", "0", "2", "6", "-", "0", "2", "-", "1", "3">>, type |-> NoClassType, reason |-> <<"W", "e", "l", "l", "n", "e", "s", "s", " ", "D", "a", "y">>],
                [date |-> <<"2", "0", "2", "6", "-", "0", "2", "-", "2", "6">>, type |-> NoClassType, reason |-> <<"A", "c", "a", "d", "e", "m", "i", "c", " ", "A", "d", "v", "i", "s", "i", "n", "g", " ", "D", "a", "y">>],
                [date |-> <<"2", "0", "2", "6", "-", "0", "3", "-", "0", "7">>, type |-> NoClassType, reason |-> <<"B", "r", "e", "a", "k">>, hidden |-> TRUE],
                [date |-> <<"2", "0", "2", "6", "-", "0", "3", "-", "0", "8">>, type |-> NoClassType, reason |-> <<"B", "r", "e", "a", "k">>, hidden |-> TRUE],
                [date |-> <<"2", "0", "2", "6", "-", "0", "3", "-", "0", "9">>, type |-> NoClassType, reason |-> <<"B", "r", "e", "a", "k">>, hidden |-> TRUE],
                [date |-> <<"2", "0", "2", "6", "-", "0", "3", "-", "1", "0">>, type |-> NoClassType, reason |-> <<"B", "r", "e", "a", "k">>, hidden |-> TRUE],
                [date |-> <<"2", "0", "2", "6", "-", "0", "3", "-", "1", "1">>, type |-> NoClassType, reason |-> <<"B", "r", "e", "a", "k">>, hidden |-> TRUE],
                [date |-> <<"2", "0", "2", "6", "-", "0", "3", "-", "1", "2">>, type |-> NoClassType, reason |-> <<"B", "r", "e", "a", "k">>, hidden |-> TRUE],
                [date |-> <<"2", "0", "2", "6", "-", "0", "3", "-", "1", "3">>, type |-> NoClassType, reason |-> <<"B", "r", "e", "a", "k">>, hidden |-> TRUE],
                [date |-> <<"2", "0", "2", "6", "-", "0", "3", "-", "1", "4">>, type |-> NoClassType, reason |-> <<"B", "r", "e", "a", "k">>, hidden |-> TRUE],
                [date |-> <<"2", "0", "2", "6", "-", "0", "3", "-", "1", "5">>, type |-> NoClassType, reason |-> <<"B", "r", "e", "a", "k">>, hidden |-> TRUE],
                [date |-> <<"2", "0", "2", "6", "-", "0", "3", "-", "3", "0">>, type |-> NoClassType, reason |-> <<"W", "e", "l", "l", "n", "e", "s", "s", " ", "D", "a", "y">>],
                [date |-> <<"2", "0", "2", "6", "-", "0", "4", "-", "0", "1">>, type |-> FollowType, weekday |-> 1],
                [date |-> <<"2", "0", "2", "6", "-", "0", "4", "-", "2", "0">>, type |-> NoClassType, reason |-> <<"P", "a", "t", "r", "i", "o", "t", "'", "s", " ", "D", "a", "y">>],
                [date |-> <<"2", "0", "2", "6", "-", "0", "4", "-", "2", "4">>, type |-> NoClassType, reason |-> <<"U", "R", "P", " ", "S", "h", "o", "w", "c", "a", "s", "e">>],
                [date |-> <<"2", "0", "2", "6", "-", "0", "5", "-", "0", "6">>, type |-> FollowType, weekday |-> 5]>>,
         end |-> <<"2", "0", "2", "6", "-", "0", "5", "-", "0", "6">>, courses |-> <<>>] >>]

ay_e2026 ==
    [name |-> <<"W", "P", "I", " ", "E", "-", "T", "e", "r", "m", " ", "2", "0", "2", "6">>,
     year |-> <<2026, 2026>>,
     range |-> <<UTCDate(<<"2", "0", "2", "6", "-", "0", "5", "-", "2", "1">>), UTCDate(<<"2", "0", "2", "6", "-", "0", "8", "-", "0", "7">>)>>,
     terms |-> <<
        [id |-> <<"E", "1">>, start |-> <<"2", "0", "2", "6", "-", "0", "5", "-", "2", "1">>,
         dates |-> <<
                [date |-> <<"2", "0", "2", "6", "-", "0", "5", "-", "2", "5">>, type |-> NoClassType, reason |-> <<"M", "e", "m", "o", "r", "i", "a", "l", " ", "D", "a", "y">>],
                [date |-> <<"2", "0", "2", "6", "-", "0", "5", "-", "2", "8">>, type |-> FollowType, weekday |-> 1],
                [date |-> <<"2", "0", "2", "6", "-", "0", "6", "-", "1", "9">>, type |-> NoClassType, reason |-> <<"J", "u", "n", "e", "t", "e", "e", "n", "t", "h">>]>>,
         end |-> <<"2", "0", "2", "6", "-", "0", "6", "-", "2", "6">>, courses |-> <<>>],
        [id |-> <<"E", "2">>, start |-> <<"2", "0", "2", "6", "-", "0", "7", "-", "0", "6">>,
         dates |-> <<>>,
         end |-> <<"2", "0", "2", "6", "-", "0", "8", "-", "0", "7">>, courses |-> <<>>] >>]

\* Object.values(academicCalendars), in the order of the keys
academicCalendars == <<ay_2025_2026, ay_e2026>>
----------------------------------------------------------------------------
(* excel.ts: parseExcelCalendar.  The sheet is the 2-D array sheetToArray  *)
(* returns: a sequence of rows, a row a sequence of cells, a cell a text   *)
(* or Undefined.  Dates are day numbers, Invalid for an Invalid Date.      *)

\* defaultIndices()
defaultIndices ==
    [courseNameNumber |-> 0 - 1, registrationStatus |-> 0 - 1, courseSection |-> 0 - 1,
     instructionalFormat |-> 0 - 1, meetingPatterns |-> 0 - 1, startDate |-> 0 - 1,
     endDate |-> 0 - 1]

\* Object.values(index).some((v) => v == null || v == -1)
Unresolved(index) == \E f \in DOMAIN index : index[f] = 0 - 1

\* x ?? fallback
Nullish(x) == x = Undefined \/ x = Null

\* a value inside a template literal
Str(x) == IF x = Undefined THEN <<"undefined">> ELSE IF x = Null THEN <<"null">> ELSE x

\* parse(cell ?? '', 'M/d/yy', new UTCDate('2025-01-01 00:00:00')): month and
\* day of one or two digits, a year of one or two digits placed in the
\* century around the reference year 2025; an Invalid Date for any other text
ParseDate(cell) ==
    LET parts == SplitOn(IF Nullish(cell) THEN <<>> ELSE cell, <<"/">>)
        yy == NumberOfDigits(parts[3])
        year == yy + 2000 - (IF yy >= 75 THEN 100 ELSE 0)
    IN  IF Len(parts) = 3 /\ \A k \in 1..3 : IsShortNumber(parts[k])
        THEN DayNumber(year, NumberOfDigits(parts[1]), NumberOfDigits(parts[2]),
                       DaysFromCivil(year, NumberOfDigits(parts[1]), NumberOfDigits(parts[2])))
        ELSE Invalid

addDays(date, amount) == IF date = Invalid THEN Invalid ELSE date + amount

\* isBefore(a, b): false when either is an Invalid Date
isBefore(a, b) == a # Invalid /\ b # Invalid /\ a < b

\* the test of containment of lines 197-198 and 233-234: lo <= startDate and
\* endDate <= hi
Within(lo, hi, startDate, endDate) ==
    isBefore(lo, addDays(startDate, 1)) /\ isBefore(endDate, addDays(hi, 1))

\* let calendar: AcademicCalendar | null = null
NoCalendar == [null |-> TRUE]

\* the year new Date().getFullYear() gives the blank calendar
ThisYear == 2025

\* lines 194-218: the calendar the first row past the required fields picks:
\* the first built-in calendar whose range contains the row's dates, else a
\* blank custom calendar
SelectCalendar(startDate, endDate) ==
    LET matched == {k \in 1..Len(academicCalendars) :
                        Within(academicCalendars[k].range[1], academicCalendars[k].range[2],
                               startDate, endDate)}
    IN  IF matched # {}
        THEN [calendar |-> academicCalendars[CHOOSE k \in matched : \A j \in matched : k <= j],
              isCustomCalendar |-> FALSE]
        ELSE [calendar |-> [name |-> <<"I", "m", "p", "o", "r", "t", "e", "d", " ", "C", "o", "u", "r", "s", "e", " ",
                                       "C", "a", "l", "e", "n", "d", "a", "r">>,
                            year |-> <<ThisYear, ThisYear>>,
                            range |-> <<startDate, endDate>>,
                            terms |-> <<>>],
              isCustomCalendar |-> TRUE]

\* the place of the last term that contains the row's dates
FindTermLast(terms, startDate, endDate) ==
    LET matched == {k \in 1..Len(terms) :
                        Within(UTCDate(terms[k].start), UTCDate(terms[k].end), startDate, endDate)}
    IN  IF matched = {} THEN 0 ELSE CHOOSE k \in matched : \A j \in matched : k >= j

\* lines 231-244: the place in terms of the first term that contains the
\* row's dates, 0 when there is none
FindTerm(terms, startDate, endDate) ==
    LET matched == {k \in 1..Len(terms) :
                        Within(UTCDate(terms[k].start), UTCDate(terms[k].end), startDate, endDate)}
    IN  IF matched = {} THEN 0 ELSE CHOOSE k \in matched : \A j \in matched : k <= j

Warning(title, message) == [title |-> title, message |-> message]

\* row[index.meetingPatterns]?.split('\n').filter(Boolean).map(parseMeetingPattern) ?? []
MeetingPatternsOf(cell) ==
    IF Nullish(cell) THEN <<>>
    ELSE LET lines == SelectSeq(SplitOn(cell, <<"\n">>), LAMBDA line : line # <<>>)
         IN  [k \in 1..Len(lines) |-> parseMeetingPattern(lines[k])]

\* the scan state before the first row (lines 67-75)
ScanStart ==
    [threw |-> "no", warnings |-> <<>>, calendar |-> NoCalendar, isCustomCalendar |-> FALSE,
     sectionType |-> "null", index |-> defaultIndices, parseIndices |-> FALSE,
     pendingSubsections |-> <<>>]

\* lines 151-169: the cells of a data row under the resolved indices
DataOf(row, index) ==
    [courseNameNumber |-> Element(row, index.courseNameNumber),
     courseSection |-> Element(row, index.courseSection),
     registrationStatus |-> Element(row, index.registrationStatus),
     instructionalFormat |-> Element(row, index.instructionalFormat),
     meetingPatterns |-> MeetingPatternsOf(Element(row, index.meetingPatterns)),
     startDate |-> ParseDate(Element(row, index.startDate)),
     endDate |-> ParseDate(Element(row, index.endDate))]

\* lines 280-313: a row with a term and meeting patterns becomes a pending
\* subsection or a course of the term at place t
AddRow(st, t, data) ==
    IF data.instructionalFormat # <<"Lecture">> /\ data.instructionalFormat # <<"Workshop">>
    THEN [st EXCEPT !.pendingSubsections =
            Append(@, [term |-> t, courseNameNumber |-> data.courseNameNumber,
                       courseSection |-> data.courseSection,
                       meetingPatterns |-> data.meetingPatterns])]
    ELSE [st EXCEPT
            !.warnings =
                @ \o Cond(data.meetingPatterns = <<>>,
                          Warning(<<"No meeting patterns found for course ">>
                                      \o Str(data.courseSection),
                                  <<"Add a meeting pattern for this course to the calendar manually, if applicable. It will be ignored otherwise.">>)),
            !.calendar.terms[t].courses =
                Append(@, [name |-> Element(SplitOn(data.courseNameNumber, <<" ", "-", " ">>), 1),
                           number |-> Element(SplitOn(data.courseNameNumber, <<" ", "-", " ">>), 0),
                           meetingPatterns |-> data.meetingPatterns,
                           subsections |-> <<>>,
                           except |-> <<>>])]

\* lines 268-278, then AddRow: a row whose term is at place t of the calendar
\* of st
WithTerm(st, t, data) ==
    IF \E k \in 1..Len(data.meetingPatterns) : IsError(data.meetingPatterns[k])
    THEN [st EXCEPT !.warnings =
            Append(@, Warning(<<"Failed to parse meeting patterns for course ">>
                                  \o Str(data.courseSection),
                              <<"Add this course to the calendar manually.">>))]
    ELSE AddRow(st, t, data)

\* lines 231-266: the term of the row; st has a calendar
MatchTerm(st, data) ==
    LET t == FindTerm(st.calendar.terms, data.startDate, data.endDate)
    IN  IF t # 0 THEN WithTerm(st, t, data)
        ELSE IF st.isCustomCalendar
        THEN IF data.startDate = Invalid \/ data.endDate = Invalid
             \* formatDate throws on an Invalid Date
             THEN [st EXCEPT !.threw = "RangeError"]
             ELSE WithTerm([st EXCEPT !.calendar.terms =
                                Append(@, [id |-> <<"C", "u", "s", "t", "o", "m">>,
                                           start |-> FormatDate(data.startDate),
                                           end |-> FormatDate(data.endDate),
                                           dates |-> <<>>,
                                           courses |-> <<>>])],
                           Len(st.calendar.terms) + 1, data)
        ELSE [st EXCEPT !.warnings =
                Append(@, Warning(<<"Couldn't match term for course ">> \o Str(data.courseSection),
                                  <<"Add this course to the calendar manually.">>))]

\* lines 151-313: a row of an enrolled or completed section read under
\* resolved indices, at place i of the sheet.  A Date is an object and an
\* array is one too: of the seven operands of the test of lines 171-179 only
\* the four cell texts can be falsy
DataRow(st, row, i) ==
    LET data == DataOf(row, st.index)
    IN  IF \/ ~Truthy(data.courseNameNumber) \/ ~Truthy(data.courseSection)
           \/ ~Truthy(data.registrationStatus) \/ ~Truthy(data.instructionalFormat)
        THEN [st EXCEPT !.warnings =
                Append(@, Warning(<<"Missing data for course ">> \o Str(data.courseSection)
                                      \o <<" at row ">> \o JsonNat(i + 1),
                                  <<"Add this course to the calendar manually.">>))]
        ELSE IF st.calendar = NoCalendar
        THEN LET selected == SelectCalendar(data.startDate, data.endDate)
             IN  MatchTerm([st EXCEPT !.calendar = selected.calendar,
                                      !.isCustomCalendar = selected.isCustomCalendar],
                           data)
        ELSE MatchTerm(st, data)

\* the five titles of the switch of lines 77-103, with the section each opens
SectionTitles ==
    << <<<<"My Enrolled Courses">>, "enrolled">>,
       <<<<"My Waitlisted Courses">>, "waitlisted">>,
       <<<<"My Completed Courses">>, "completed">>,
       <<<<"My Dropped/Withdrawn Courses">>, "dropped">>,
       <<<<"Enrolled Credits">>, "null">> >>

\* lines 116-141: the row is read as the row of column labels
ParseIndices(st, row, i) ==
    LET index == [courseNameNumber |-> IndexOf(row, <<"Course Listing">>),
                  registrationStatus |-> IndexOf(row, <<"Registration Status">>),
                  courseSection |-> IndexOf(row, <<"Section">>),
                  instructionalFormat |-> IndexOf(row, <<"Instructional Format">>),
                  meetingPatterns |-> IndexOf(row, <<"Meeting Patterns">>),
                  startDate |-> IndexOf(row, <<"Start Date">>),
                  endDate |-> IndexOf(row, <<"End Date">>)]
    IN  [st EXCEPT
            !.index = index,
            !.parseIndices = FALSE,
            !.warnings =
                @ \o Cond(Unresolved(index),
                          Warning(<<"Possibly missing data for ", st.sectionType,
                                    " section at row ">> \o JsonNat(i + 1),
                                  <<"Check courses for missing data.">>))]

\* the body of the loop without the test of lines 112-115
ScanRowNoSectionSkip(st, row, i) ==
    IF \E k \in 1..Len(SectionTitles) : Element(row, 0) = SectionTitles[k][1]
    THEN [st EXCEPT
            !.sectionType =
                SectionTitles[CHOOSE k \in 1..Len(SectionTitles) :
                                Element(row, 0) = SectionTitles[k][1]][2],
            !.index = defaultIndices]
    ELSE IF st.sectionType = "enrolled" /\ Element(row, 6) = <<"Enrolled Sections">>
    THEN [st EXCEPT !.parseIndices = TRUE]
    ELSE IF st.sectionType = "completed" /\ Element(row, 5) = <<"Completed Sections">>
    THEN [st EXCEPT !.parseIndices = TRUE]
    ELSE IF st.parseIndices
    THEN ParseIndices(st, row, i)
    ELSE IF Unresolved(st.index)
    THEN st
    ELSE DataRow(st, row, i)

\* the body of the loop with titles that leave the column indices alone
ScanRowKeepsIndices(st, row, i) ==
    IF \E k \in 1..Len(SectionTitles) : Element(row, 0) = SectionTitles[k][1]
    THEN [st EXCEPT
            !.sectionType =
                SectionTitles[CHOOSE k \in 1..Len(SectionTitles) :
                                Element(row, 0) = SectionTitles[k][1]][2]]
    ELSE IF st.sectionType = "enrolled" /\ Element(row, 6) = <<"Enrolled Sections">>
    THEN [st EXCEPT !.parseIndices = TRUE]
    ELSE IF st.sectionType = "completed" /\ Element(row, 5) = <<"Completed Sections">>
    THEN [st EXCEPT !.parseIndices = TRUE]
    ELSE IF st.sectionType # "enrolled" /\ st.sectionType # "completed"
    THEN st
    ELSE IF st.parseIndices
    THEN ParseIndices(st, row, i)
    ELSE IF Unresolved(st.index)
    THEN st
    ELSE DataRow(st, row, i)

\* the body of the loop of lines 76-314 for the row at place i of the sheet
ScanRow(st, row, i) ==
    IF \E k \in 1..Len(SectionTitles) : Element(row, 0) = SectionTitles[k][1]
    THEN [st EXCEPT
            !.sectionType =
                SectionTitles[CHOOSE k \in 1..Len(SectionTitles) :
                                Element(row, 0) = SectionTitles[k][1]][2],
            !.index = defaultIndices]
    ELSE IF st.sectionType = "enrolled" /\ Element(row, 6) = <<"Enrolled Sections">>
    THEN [st EXCEPT !.parseIndices = TRUE]
    ELSE IF st.sectionType = "completed" /\ Element(row, 5) = <<"Completed Sections">>
    THEN [st EXCEPT !.parseIndices = TRUE]
    ELSE IF st.sectionType # "enrolled" /\ st.sectionType # "completed"
    THEN st
    ELSE IF st.parseIndices
    THEN ParseIndices(st, row, i)
    ELSE IF Unresolved(st.index)
    THEN st
    ELSE DataRow(st, row, i)

\* extractSubsectionName(courseSection); AnError stands for the TypeError of
\* name[0] when the section code has no hyphen
extractSubsectionName(courseSection) ==
    LET name == Element(SplitOn(SplitOn(courseSection, <<" ", "-", " ">>)[1], <<"-">>), 1)
    IN  IF name = Undefined THEN AnError
        ELSE IF name # <<>> /\ name[1] \in {"A", "B", "C", "D"} /\ Len(name) >= 2
        THEN CASE name[2] = "L" -> <<"L", "e", "c", "t", "u", "r", "e">>
               [] name[2] = "D" -> <<"D", "i", "s", "c", "u", "s", "s", "i", "o", "n">>
               [] name[2] = "X" -> <<"L", "a", "b", "o", "r", "a", "t", "o", "r", "y">>
               [] name[2] = "R" -> <<"R", "e", "c", "i", "t", "a", "t", "i", "o", "n">>
               [] OTHER -> name
        ELSE name

RECURSIVE AttachSubsectionsFirst(_, _)
\* the pending subsections from the k-th on, each given to the first course
\* of its number whatever the names are
AttachSubsectionsFirst(st, k) ==
    IF k > Len(st.pendingSubsections) THEN st
    ELSE LET s == st.pendingSubsections[k]
             parts == SplitOn(s.courseNameNumber, <<" ", "-", " ">>)
             name == extractSubsectionName(s.courseSection)
             term == st.calendar.terms[s.term]
             courses == {c \in 1..Len(term.courses) : term.courses[c].number = Element(parts, 0)}
             course == CHOOSE c \in courses : \A j \in courses : c <= j
         IN  IF name = AnError THEN [st EXCEPT !.threw = "TypeError"]
             ELSE IF courses = {}
             THEN AttachSubsectionsFirst(
                    [st EXCEPT !.warnings =
                        Append(@, Warning(<<"Couldn't find parent course ">> \o s.courseNameNumber
                                              \o <<" in term ">> \o term.id,
                                          <<"Add the ">> \o name
                                              \o <<" section for this course to the calendar manually.">>))],
                    k + 1)
             ELSE AttachSubsectionsFirst(
                    [st EXCEPT !.calendar.terms[s.term].courses[course].subsections =
                        Append(@, [name |-> name, meetingPatterns |-> s.meetingPatterns,
                                   except |-> <<>>])],
                    k + 1)

RECURSIVE AttachSubsections(_, _)
\* lines 316-341: the pending subsections from the k-th on
AttachSubsections(st, k) ==
    IF k > Len(st.pendingSubsections) THEN st
    ELSE LET s == st.pendingSubsections[k]
             parts == SplitOn(s.courseNameNumber, <<" ", "-", " ">>)
             name == extractSubsectionName(s.courseSection)
             term == st.calendar.terms[s.term]
             courses == {c \in 1..Len(term.courses) : term.courses[c].number = Element(parts, 0)}
             named == {c \in courses : term.courses[c].name = Element(parts, 1)}
             course == IF named # {} THEN CHOOSE c \in named : \A j \in named : c <= j
                       ELSE CHOOSE c \in courses : \A j \in courses : c <= j
         IN  IF name = AnError THEN [st EXCEPT !.threw = "TypeError"]
             ELSE IF courses = {}
             THEN AttachSubsections(
                    [st EXCEPT !.warnings =
                        Append(@, Warning(<<"Couldn't find parent course ">> \o s.courseNameNumber
                                              \o <<" in term ">> \o term.id,
                                          <<"Add the ">> \o name
                                              \o <<" section for this course to the calendar manually.">>))],
                    k + 1)
             ELSE AttachSubsections(
                    [st EXCEPT !.calendar.terms[s.term].courses[course].subsections =
                        Append(@, [name |-> name, meetingPatterns |-> s.meetingPatterns,
                                   except |-> <<>>])],
                    k + 1)

\* what a call of parseExcelCalendar ends with: an exception thrown, an error
\* value returned, or a calendar returned with its warnings
Outcome(threw, error, cal, warnings) ==
    [threw |-> threw, error |-> error, calendar |-> cal, warnings |-> warnings]

\* range and ids of the terms of a custom calendar, the terms left in the
\* order of the rows
FixCustomNoSort(cal) ==
    LET start == cal.terms[CHOOSE k \in 1..Len(cal.terms) :
                    \A j \in 1..Len(cal.terms) : ~StrLess(cal.terms[j].start, cal.terms[k].start)].start
        end == cal.terms[CHOOSE k \in 1..Len(cal.terms) :
                    \A j \in 1..Len(cal.terms) : ~StrLess(cal.terms[k].end, cal.terms[j].end)].end
    IN  [cal EXCEPT
            !.range = <<UTCDate(start), UTCDate(end)>>,
            !.terms = [k \in 1..Len(cal.terms) |->
                        [cal.terms[k] EXCEPT !.id = <<"T", "e", "r", "m", " ">> \o JsonNat(k)]],
            !.year = <<CivilFromDays(UTCDate(start))[1], CivilFromDays(UTCDate(end))[1]>>]

\* lines 353-376: range, order and ids of the terms of a custom calendar
FixCustom(cal) ==
    LET start == cal.terms[CHOOSE k \in 1..Len(cal.terms) :
                    \A j \in 1..Len(cal.terms) : ~StrLess(cal.terms[j].start, cal.terms[k].start)].start
        end == cal.terms[CHOOSE k \in 1..Len(cal.terms) :
                    \A j \in 1..Len(cal.terms) : ~StrLess(cal.terms[k].end, cal.terms[j].end)].end
        sorted == SortBy(cal.terms, [k \in 1..Len(cal.terms) |-> cal.terms[k].start])
    IN  [cal EXCEPT
            !.range = <<UTCDate(start), UTCDate(end)>>,
            !.terms = [k \in 1..Len(sorted) |->
                        [sorted[k] EXCEPT !.id = <<"T", "e", "r", "m", " ">> \o JsonNat(k)]],
            !.year = <<CivilFromDays(UTCDate(start))[1], CivilFromDays(UTCDate(end))[1]>>]

\* lines 316-391: what parseExcelCalendar does after the last row
Finish(scanned) ==
    LET st == AttachSubsections(scanned, 1)
        terms == SelectSeq(st.calendar.terms, LAMBDA t : t.courses # <<>>)
    IN  IF st.threw # "no" THEN Outcome(st.threw, Null, NoCalendar, <<>>)
        \* calendar!.terms of null
        ELSE IF st.calendar = NoCalendar THEN Outcome("TypeError", Null, NoCalendar, <<>>)
        ELSE IF terms = <<>>
        THEN Outcome("no", <<"No courses found. Check that your export is from the correct page.">>,
                     NoCalendar, <<>>)
        ELSE IF st.isCustomCalendar
        THEN Outcome("no", Null, FixCustom([st.calendar EXCEPT !.terms = terms]),
                     <<Warning(<<"Warning: couldn't match a known WPI academic calendar">>,
                               <<"Check term dates for accuracy and add term names, holidays, exceptions to the calendar manually.">>)>>
                         \o st.warnings)
        ELSE Outcome("no", Null, [st.calendar EXCEPT !.terms = terms], st.warnings)

\* lines 40-65: what parseExcelCalendar ends with before it scans a row, for a
\* workbook of sheetNames sheets whose first sheet begins with the rows
\* sheet; threw is "scan" when the scan begins
Opened(sheetNames, sheet) ==
    IF sheetNames # 1
    THEN Outcome("no", <<"Excel file must contain exactly one sheet. Please check that your export is from the correct page.">>,
                 NoCalendar, <<>>)
    \* sheet[0][0] of an empty array
    ELSE IF sheet = <<>> THEN Outcome("TypeError", Null, NoCalendar, <<>>)
    ELSE IF Element(sheet[1], 0) # <<"View My Courses">>
            /\ Element(sheet[1], 0) # <<"My Enrolled Courses">>
    THEN Outcome("no", <<"Expected first cell to be \"View My Courses\" or \"My Enrolled Courses\". Please check that your export is from the correct page.">>,
                 NoCalendar, <<>>)
    ELSE Outcome("scan", Null, NoCalendar, <<>>)

\* no parseExcelCalendar call yet
NoImport ==
    [pc |-> "idle", sheetNames |-> 0, empty |-> TRUE, i |-> 0, row |-> <<>>, st |-> ScanStart,
     result |-> Outcome("no", Null, NoCalendar, <<>>)]

\* parseExcelCalendar up to its loop (lines 40-75) on a workbook of sheetNames
\* sheets; sheet holds the first row of its first sheet, or no row when the
\* sheet is empty
OpenWorkbook(sheetNames, sheet) ==
    /\ excel.pc = "idle"
    /\ excel' = [pc |-> IF Opened(sheetNames, sheet).threw = "scan" THEN "scan" ELSE "done",
                 sheetNames |-> sheetNames,
                 empty |-> sheet = <<>>,
                 i |-> 0,
                 row |-> IF sheet = <<>> THEN <<>> ELSE sheet[1],
                 st |-> ScanStart,
                 result |-> Opened(sheetNames, sheet)]
    /\ UNCHANGED <<calendar, errors, ical, generateWarnings, runs, last, ended, started,
                   edits, toast, parsing, importWarnings, registry, shared>>

\* one pass of the loop of lines 76-314: the sheet has a row at place
\* excel.i, the first row being the one OpenWorkbook looked at; an exception
\* ends the call
ScanStep(row) ==
    /\ excel.pc = "scan"
    /\ excel.i < MaxRows
    /\ excel.i = 0 => row = excel.row
    /\ excel' = [excel EXCEPT
                    !.pc = IF ScanRow(excel.st, row, excel.i).threw # "no" THEN "done" ELSE "scan",
                    !.i = @ + 1,
                    !.row = row,
                    !.st = ScanRow(excel.st, row, excel.i),
                    !.result = Outcome(ScanRow(excel.st, row, excel.i).threw, Null,
                                       NoCalendar, <<>>)]
    /\ UNCHANGED <<calendar, errors, ical, generateWarnings, runs, last, ended, started,
                   edits, toast, parsing, importWarnings, registry, shared>>

\* the sheet has no further row: lines 316-391
EndOfSheet ==
    /\ excel.pc = "scan"
    /\ excel.i >= 1
    /\ excel' = [excel EXCEPT !.pc = "done", !.result = Finish(excel.st)]
    /\ UNCHANGED <<calendar, errors, ical, generateWarnings, runs, last, ended, started,
                   edits, toast, parsing, importWarnings, registry, shared>>

RECURSIVE ScanFrom(_, _, _)
\* the loop of lines 76-314 from the row at place i on, up to the end of the
\* sheet or to an exception
ScanFrom(st, sheet, i) ==
    IF i >= Len(sheet) \/ st.threw # "no" THEN st
    ELSE ScanFrom(ScanRow(st, sheet[i + 1], i), sheet, i + 1)

\* parseExcelCalendar on a workbook of sheetNames sheets, sheet being the
\* rows of the first
parseExcelCalendar(sheetNames, sheet) ==
    IF Opened(sheetNames, sheet).threw # "scan" THEN Opened(sheetNames, sheet)
    ELSE Finish(ScanFrom(ScanStart, sheet, 0))

\* the input element with no file selected
NoFile == [sheetNames |-> 0, sheet |-> <<>>, selected |-> FALSE]

\* a selected workbook
Workbook(sheetNames, sheet) == [sheetNames |-> sheetNames, sheet |-> sheet, selected |-> TRUE]

\* the assignments of importExcel after the awaited parseExcelCalendar has
\* returned result (lines 475-502): a call that threw rejects the promise of
\* importExcel, which leaves the loading message on display
Imported(result) ==
    IF result.threw # "no"
    THEN /\ toast' = [message |-> <<"Parsing file (this might take a while)...">>,
                      class |-> "info"]
         /\ UNCHANGED <<calendar, errors, ical, generateWarnings, runs, last,
                        importWarnings, shared>>
    ELSE IF result.error # Null
    THEN /\ toast' = [message |-> result.error, class |-> "error"]
         /\ UNCHANGED <<calendar, errors, ical, generateWarnings, runs, last,
                        importWarnings, shared>>
    ELSE /\ shared' = <<>>
         /\ ThenGenerate([name |-> result.calendar.name, terms |-> result.calendar.terms],
                         errors, ical, generateWarnings)
         /\ IF result.warnings = <<>>
            THEN /\ toast' = [message |-> <<"Review and make any necessary changes below.">>,
                              class |-> "success"]
                 /\ UNCHANGED importWarnings
            ELSE /\ toast' = [message |-> <<"Review the warnings below and make any necessary changes.">>,
                              class |-> "warning"]
                 /\ importWarnings' = result.warnings

\* importExcel(), file being what the input element holds
importExcel(file) ==
    /\ started
    /\ Len(edits) < MaxEdits
    /\ edits' = Append(edits, "importExcel")
    /\ IF ~file.selected
       THEN /\ toast' = [message |-> <<"No file selected.">>, class |-> "error"]
            /\ UNCHANGED <<calendar, errors, ical, generateWarnings, runs, last,
                           importWarnings, shared>>
       ELSE \E result \in {parseExcelCalendar(file.sheetNames, file.sheet)} : Imported(result)
    /\ UNCHANGED <<started, ended, excel, parsing, registry>>

\* no parseMeetingPattern call yet
NoParse == [pc |-> "idle", pattern |-> <<>>, result |-> PatternError]

\* a call of parseMeetingPattern with the text pattern, as the editor and the
\* import make it
ParsePattern(pattern) ==
    /\ parsing.pc = "idle"
    /\ parsing' = [pc |-> "done", pattern |-> pattern, result |-> parseMeetingPattern(pattern)]
    /\ UNCHANGED <<calendar, errors, ical, generateWarnings, runs, last, ended, started,
                   edits, toast, excel, importWarnings, registry, shared>>

\* parseMeetingPattern is called anew
ParseAgain ==
    /\ parsing.pc = "done"
    /\ parsing' = NoParse
    /\ UNCHANGED <<calendar, errors, ical, generateWarnings, runs, last, ended, started,
                   edits, toast, excel, importWarnings, registry, shared>>

\* the rows of the sheets, seven columns wide: the section titles, the marker
\* rows, a row of all seven column labels and one without End Date, and data
\* rows laid out as the labels are: a lecture and a laboratory of CS 1 in the
\* built-in term A25 and a lecture of the same number and another name,
\* lectures whose dates lie in no built-in calendar and a
\* laboratory of one of them that runs for a part of its days, a
\* lecture in the winter gap between the built-in terms, rows with a blank
\* section, a blank start date or a meeting pattern line that does not parse,
\* one with such a line and an end date that is no date, and a lecture the
\* student has dropped
Rows ==
    [ enrolled |-> <<<<"My Enrolled Courses">>, Undefined, Undefined, Undefined, Undefined, Undefined, Undefined>>,
      waitlisted |-> <<<<"My Waitlisted Courses">>, Undefined, Undefined, Undefined, Undefined, Undefined, Undefined>>,
      completed |-> <<<<"My Completed Courses">>, Undefined, Undefined, Undefined, Undefined, Undefined, Undefined>>,
      dropped |-> <<<<"My Dropped/Withdrawn Courses">>, Undefined, Undefined, Undefined, Undefined, Undefined, Undefined>>,
      credits |-> <<<<"Enrolled Credits">>, Undefined, Undefined, Undefined, Undefined, Undefined, Undefined>>,
      enrolledSections |-> <<Undefined, Undefined, Undefined, Undefined, Undefined, Undefined, <<"Enrolled Sections">>>>,
      completedSections |-> <<Undefined, Undefined, Undefined, Undefined, Undefined, <<"Completed Sections">>, Undefined>>,
      labels |-> <<<<"Course Listing">>, <<"Section">>, <<"Instructional Format">>,
                   <<"Meeting Patterns">>, <<"Registration Status">>, <<"Start Date">>,
                   <<"End Date">>>>,
      labelsNoEnd |-> <<<<"Course Listing">>, <<"Section">>, <<"Instructional Format">>,
                        <<"Meeting Patterns">>, <<"Registration Status">>, <<"Start Date">>,
                        Undefined>>,
      lecture |->
    <<<<"C", "S", " ", "1", " ", "-", " ", "A">>,
       <<"C", "S", " ", "1", "-", "A", "L", "0", "1", " ", "-", " ", "A">>,
       <<"Lecture">>,
       <<"M", "-", "R", " ", "|", " ", "0", "9", ":", "0", "0", " ", "A", "M", " ", "-", " ", "0", "9", ":", "5", "0", " ", "A", "M", " ", "|", " ", "H">>,
       <<"Registered">>,
       <<"8", "/", "2", "1", "/", "2", "5">>,
       <<"1", "0", "/", "1", "0", "/", "2", "5">>>>,
      lectureB |->
    <<<<"C", "S", " ", "1", " ", "-", " ", "B">>,
       <<"C", "S", " ", "1", "-", "A", "L", "0", "2", " ", "-", " ", "B">>,
       <<"Lecture">>,
       <<"T", "-", "F", " ", "|", " ", "1", "0", ":", "0", "0", " ", "A", "M", " ", "-", " ", "1", "0", ":", "5", "0", " ", "A", "M">>,
       <<"Registered">>,
       <<"8", "/", "2", "1", "/", "2", "5">>,
       <<"1", "0", "/", "1", "0", "/", "2", "5">>>>,
      laboratory |->
    <<<<"C", "S", " ", "1", " ", "-", " ", "A">>,
       <<"C", "S", " ", "1", "-", "A", "X", "0", "1", " ", "-", " ", "A">>,
       <<"Laboratory">>,
       <<"T", " ", "|", " ", "1", ":", "0", "0", " ", "p", "m", " ", "-", " ", "2", ":", "5", "0", " ", "p", "m">>,
       <<"Registered">>,
       <<"8", "/", "2", "1", "/", "2", "5">>,
       <<"1", "0", "/", "1", "0", "/", "2", "5">>>>,
      summer |->
    <<<<"M", "A", " ", "2", " ", "-", " ", "B">>,
       <<"M", "A", " ", "2", "-", "E", "L", "0", "1", " ", "-", " ", "B">>,
       <<"Lecture">>,
       <<"M", "-", "R", " ", "|", " ", "0", "9", ":", "0", "0", " ", "A", "M", " ", "-", " ", "0", "9", ":", "5", "0", " ", "A", "M", " ", "|", " ", "H">>,
       <<"Registered">>,
       <<"6", "/", "1", "/", "2", "5">>,
       <<"6", "/", "3", "0", "/", "2", "5">>>>,
      summerLab |->
    <<<<"M", "A", " ", "2", " ", "-", " ", "B">>,
       <<"M", "A", " ", "2", "-", "E", "X", "0", "1", " ", "-", " ", "B">>,
       <<"Laboratory">>,
       <<"T", " ", "|", " ", "1", ":", "0", "0", " ", "p", "m", " ", "-", " ", "2", ":", "5", "0", " ", "p", "m">>,
       <<"Registered">>,
       <<"6", "/", "1", "0", "/", "2", "5">>,
       <<"6", "/", "2", "0", "/", "2", "5">>>>,
      june |->
    <<<<"P", "H", " ", "3", " ", "-", " ", "C">>,
       <<"P", "H", " ", "3", "-", "E", "L", "0", "2", " ", "-", " ", "C">>,
       <<"Workshop">>,
       Undefined,
       <<"Completed">>,
       <<"6", "/", "1", "0", "/", "2", "5">>,
       <<"6", "/", "2", "0", "/", "2", "5">>>>,
      winter |->
    <<<<"H", "U", " ", "4", " ", "-", " ", "D">>,
       <<"H", "U", " ", "4", "-", "B", "L", "0", "1", " ", "-", " ", "D">>,
       <<"Lecture">>,
       <<"M", "-", "R", " ", "|", " ", "0", "9", ":", "0", "0", " ", "A", "M", " ", "-", " ", "0", "9", ":", "5", "0", " ", "A", "M", " ", "|", " ", "H">>,
       <<"Registered">>,
       <<"1", "2", "/", "2", "0", "/", "2", "5">>,
       <<"1", "/", "5", "/", "2", "6">>>>,
      noSection |->
    <<<<"C", "S", " ", "5", " ", "-", " ", "E">>,
       Undefined,
       <<"Lecture">>,
       <<"M", "-", "R", " ", "|", " ", "0", "9", ":", "0", "0", " ", "A", "M", " ", "-", " ", "0", "9", ":", "5", "0", " ", "A", "M", " ", "|", " ", "H">>,
       <<"Registered">>,
       <<"8", "/", "2", "1", "/", "2", "5">>,
       <<"1", "0", "/", "1", "0", "/", "2", "5">>>>,
      noStart |->
    <<<<"C", "S", " ", "6", " ", "-", " ", "F">>,
       <<"C", "S", " ", "6", "-", "A", "L", "0", "1", " ", "-", " ", "F">>,
       <<"Lecture">>,
       <<"M", "-", "R", " ", "|", " ", "0", "9", ":", "0", "0", " ", "A", "M", " ", "-", " ", "0", "9", ":", "5", "0", " ", "A", "M", " ", "|", " ", "H">>,
       <<"Registered">>,
       Undefined,
       <<"1", "0", "/", "1", "0", "/", "2", "5">>>>,
      badLine |->
    <<<<"C", "S", " ", "7", " ", "-", " ", "G">>,
       <<"C", "S", " ", "7", "-", "A", "L", "0", "1", " ", "-", " ", "G">>,
       <<"Lecture">>,
       <<"M", "-", "R", " ", "|", " ", "0", "9", ":", "0", "0", " ", "A", "M", " ", "-", " ", "0", "9", ":", "5", "0", " ", "A", "M", " ", "|", " ", "H", "\n", "X", " ", "|", " ", "9", " ", "A", "M">>,
       <<"Registered">>,
       <<"8", "/", "2", "1", "/", "2", "5">>,
       <<"1", "0", "/", "1", "0", "/", "2", "5">>>>,
      badLineSummer |->
    <<<<"M", "A", " ", "8", " ", "-", " ", "H">>,
       <<"M", "A", " ", "8", "-", "E", "L", "0", "1", " ", "-", " ", "H">>,
       <<"Lecture">>,
       <<"M", "-", "R", " ", "|", " ", "0", "9", ":", "0", "0", " ", "A", "M", " ", "-", " ", "0", "9", ":", "5", "0", " ", "A", "M", " ", "|", " ", "H", "\n", "X", " ", "|", " ", "9", " ", "A", "M">>,
       <<"Registered">>,
       <<"7", "/", "1", "/", "2", "5">>,
       <<"7", "/", "3", "1", "/", "2", "5">>>>,
      badLineNoEnd |->
    <<<<"E", "E", " ", "0", " ", "-", " ", "J">>,
       <<"E", "E", " ", "0", "-", "A", "L", "0", "1", " ", "-", " ", "J">>,
       <<"Lecture">>,
       <<"M", "-", "R", " ", "|", " ", "0", "9", ":", "0", "0", " ", "A", "M", " ", "-", " ", "0", "9", ":", "5", "0", " ", "A", "M", " ", "|", " ", "H", "\n", "X", " ", "|", " ", "9", " ", "A", "M">>,
       <<"Registered">>,
       <<"8", "/", "2", "1", "/", "2", "5">>,
       <<"T", "B", "D">>>>,
      withdrawn |->
    <<<<"C", "S", " ", "9", " ", "-", " ", "I">>,
       <<"C", "S", " ", "9", "-", "A", "L", "0", "1", " ", "-", " ", "I">>,
       <<"Lecture">>,
       <<"M", "-", "R", " ", "|", " ", "0", "9", ":", "0", "0", " ", "A", "M", " ", "-", " ", "0", "9", ":", "5", "0", " ", "A", "M", " ", "|", " ", "H">>,
       <<"Withdrawn">>,
       <<"8", "/", "2", "1", "/", "2", "5">>,
       <<"1", "0", "/", "1", "0", "/", "2", "5">>>> ]

\* the first rows of the sheets: the two titles of a Workday export and a row
\* that begins with neither
FirstRows ==
    { <<<<"View My Courses">>, Undefined, Undefined, Undefined, Undefined, Undefined, Undefined>>,
      Rows.enrolled,
      Rows.lecture }

\* the weekday parts of the meeting pattern texts: one and several weekdays,
\* short and long names in either case and with blanks, a repeated weekday,
\* an unknown one, none, and two names every object of the language has
WeekdayTexts ==
    { <<"M">>,
      <<"M", "-", "R">>,
      <<"m", "-", "w", "-", "f">>,
      <<"S", "u", "-", "S", "a">>,
      <<" ", "M", "o", "n", "d", "a", "y", " ", "-", " ", "t", "h", "u", "r", "s", "d", "a", "y", " ">>,
      <<"M", "-", "M">>,
      <<"T", "-", "t">>,
      <<"X">>,
      <<>>,
      <<"c", "o", "n", "s", "t", "r", "u", "c", "t", "o", "r">>,
      <<"M", "-", "_", "_", "p", "r", "o", "t", "o", "_", "_">> }

\* the time parts: two times in order, the same time twice, an end before the
\* start, times without minutes, an hour past 12, and a single time
TimeTexts ==
    { <<"0", "9", ":", "0", "0", " ", "A", "M", " ", "-", " ", "0", "9", ":", "5", "0", " ", "A", "M">>,
      <<"1", ":", "0", "0", " ", "p", "m", " ", "-", " ", "2", ":", "5", "0", " ", "p", "m">>,
      <<"1", "2", ":", "0", "0", " ", "a", ".", "m", ".", " ", "-", " ", "1", "2", ":", "0", "0", " ", "a", ".", "m", ".">>,
      <<"2", ":", "0", "0", " ", "P", "M", " ", "-", " ", "1", ":", "0", "0", " ", "P", "M">>,
      <<"9", " ", "A", "M", " ", "-", " ", "1", "0", " ", "A", "M">>,
      <<"1", "3", ":", "0", "0", " ", "P", "M", " ", "-", " ", "2", ":", "0", "0", " ", "P", "M">>,
      <<"0", "9", ":", "0", "0", " ", "A", "M">> }

\* what follows the times: nothing, a location, a location and a fourth part
TailTexts == { <<>>, <<" ", "|", " ", "H">>, <<" ", "|", " ", "H", " ", "|", " ", "X">> }

\* the texts parseMeetingPattern is called with
PatternTexts ==
    { w \o <<" ", "|", " ">> \o t \o l : w \in WeekdayTexts, t \in TimeTexts, l \in TailTexts }
        \cup WeekdayTexts

----------------------------------------------------------------------------
(* The calendars and feed files of the checks *)

\* the first day of the built-in term A25, a Thursday
A25Start == <<"2", "0", "2", "5", "-", "0", "8", "-", "2", "1">>

Day0 == UTCDate(A25Start)

\* the date off days after Day0
DateText(off) == FormatDate(Day0 + off)

\* a Monday and a Tuesday inside every short term
OD == DateText(4)
OD2 == DateText(5)

Time(h1, h2, m1, m2) == <<h1, h2, ":", m1, m2>>

Lecture(weekdays, location) ==
    [startTime |-> Time("0", "9", "0", "0"), endTime |-> Time("0", "9", "5", "0"),
     weekdays |-> weekdays, location |-> location]

Lab ==
    [startTime |-> Time("1", "0", "0", "0"), endTime |-> Time("1", "0", "5", "0"),
     weekdays |-> <<2, 4>>, location |-> Null]

Section(name, except) == [name |-> name, meetingPatterns |-> <<Lab>>, except |-> except]

Course(number, lecture, except, subsections) ==
    [number |-> number, name |-> <<"I">>, meetingPatterns |-> <<lecture>>,
     except |-> except, subsections |-> subsections]

Term(id, start, end, courses, dates) ==
    [id |-> id, start |-> start, end |-> end, courses |-> courses, dates |-> dates]

Overrides ==
    { [date |-> OD, type |-> NoClassType, reason |-> <<"R">>],
      [date |-> OD, type |-> NoClassType, reason |-> <<>>, hidden |-> TRUE],
      [date |-> OD, type |-> FollowType, weekday |-> 4],
      [date |-> OD, type |-> FollowType, weekday |-> 2],
      [date |-> OD2, type |-> FollowType, weekday |-> 4],
      [date |-> OD2, type |-> FollowType, weekday |-> 2],
      [date |-> OD2, type |-> NoClassType] }

OverrideLists == UNION {[1..n -> Overrides] : n \in 0..MaxOverrides}

SectionLists ==
    { <<>>,
      <<Section(<<"L">>, <<>>)>>,
      <<Section(<<"L">>, <<OD2>>)>>,
      <<Section(<<"L">>, <<OD2>>), Section(<<"D">>, <<>>)>> }

Courses ==
    { Course(<<"C", "S", " ", "1">>, lecture, except, subsections) :
        lecture \in {Lecture(<<1, 4>>, <<"H">>), Lecture(<<2>>, Null)},
        except \in {<<>>, <<OD>>},
        subsections \in SectionLists }

Plain == Course(<<"C", "S", " ", "1">>, Lecture(<<1, 4>>, <<"H">>), <<>>, <<>>)

\* one short term, every combination of overrides and course
OverrideCalendars ==
    { [name |-> <<"F">>,
       terms |-> <<Term(<<"A">>, A25Start, DateText(TermSpan - 1), <<course>>, dates)>>] :
        course \in Courses, dates \in OverrideLists }

\* a term of n days from Day0 + off
Span(id, off, n, courses) == Term(id, DateText(off), DateText(off + n - 1), courses, <<>>)

\* terms whose dates sum to just below, exactly and just above MaxDates
LongCalendars ==
    { [name |-> <<>>, terms |-> <<Span(<<"A">>, 0, n, <<Plain>>)>>] :
        n \in {MaxDates - 1, MaxDates, MaxDates + 1, MaxDates + TermSpan} }
    \cup
    { [name |-> <<" ", "F", " ">>,
       terms |-> <<Span(<<"B">>, 4, n, <<Plain>>), Span(<<"A">>, 0, TermSpan, <<Plain>>)>>] :
        n \in {TermSpan, MaxDates - TermSpan, MaxDates - TermSpan + 1} }

Empty == [name |-> <<>>, terms |-> <<>>]

\* calendars the validator rejects
InvalidCalendars ==
    { Empty,
      [name |-> <<>>, terms |-> <<Span(<<"A">>, 0, TermSpan, <<>>)>>],
      [name |-> <<>>, terms |-> <<Span(<<>>, 0, TermSpan, <<Plain>>)>>],
      [name |-> <<>>, terms |-> <<Term(<<>>, DateText(TermSpan), A25Start, <<Plain>>, <<>>)>>],
      [name |-> <<>>, terms |-> <<Span(<<"A">>, 0, TermSpan, <<Plain>>),
                                  Span(<<"A">>, TermSpan, TermSpan, <<Plain>>)>>],
      [name |-> <<>>,
       terms |-> <<Span(<<"A">>, 0, TermSpan,
                        <<Course(<<>>, Lecture(<<1>>, Null), <<DateText(TermSpan)>>,
                                 <<Section(<<>>, <<>>)>>)>>)>>],
      [name |-> <<>>, terms |-> <<Span(<<"A">>, 0, MaxDates + 1, <<>>)>>] }

\* the calendars of the expansion checks
Calendars == OverrideCalendars \cup LongCalendars \cup InvalidCalendars

\* the calendars of the editing sessions
SessionCalendars ==
    { Empty,
      [name |-> <<"F">>, terms |-> <<Span(<<"A">>, 0, TermSpan, <<Plain>>)>>],
      [name |-> <<>>,
       terms |-> <<Term(<<"A">>, A25Start, DateText(TermSpan - 1),
                        <<Course(<<"C", "S", " ", "1">>, Lecture(<<1, 4>>, <<"H">>), <<OD>>,
                                 <<Section(<<"L">>, <<>>)>>)>>,
                        <<[date |-> OD2, type |-> FollowType, weekday |-> 4]>>)>>] }

\* a feed file whose product id carries the calendar cal
FileOf(cal) == createEvents(<<>>, CalName(cal), ProductId(encodeCalendar(cal)))

\* the feed files the user picks besides the stored feed: one of a calendar of
\* MaxDates + 1 dates, one of a short calendar, one whose product id has no
\* calendar data
Files ==
    { FileOf([name |-> <<"L">>, terms |-> <<Span(<<"A">>, 0, MaxDates + 1, <<Plain>>)>>]),
      FileOf([name |-> <<" ">>, terms |-> <<Span(<<"B">>, 0, TermSpan, <<Plain>>)>>]),
      createEvents(<<>>, <<"X">>, <<"-", "/", "/", "X">>) }

\* calendars that meet the rules of validate one by one: meeting patterns,
\* course and subsection names, except lists, override dates, and term ids
\* and ranges at the first and at the second place of calendar.terms
ValidateCalendars ==
    LET late == DateText(TermSpan - 1)
        patterns ==
            { Lab,
              [Lab EXCEPT !.startTime = <<>>],
              [Lab EXCEPT !.endTime = <<>>],
              [Lab EXCEPT !.endTime = Time("0", "9", "0", "0")],
              [Lab EXCEPT !.weekdays = <<>>],
              emptyMeetingPattern }
        patternLists ==
            {<<>>, <<Lecture(<<1, 4>>, <<"H">>), Lecture(<<4, 2, 4>>, Null)>>}
            \cup {<<mp>> : mp \in patterns}
        excepts == {<<>>, <<OD>>, <<OD, <<>>>>, <<DateText(0 - 1)>>, <<DateText(TermSpan)>>}
        sections ==
            { [name |-> n, meetingPatterns |-> pl, except |-> x] :
                n \in {<<"L">>, <<>>},
                pl \in {<<Lab>>, <<>>, <<emptyMeetingPattern>>},
                x \in excepts }
        unnamed == [name |-> <<>>, meetingPatterns |-> <<Lab>>, except |-> <<>>]
        sectionLists ==
            {<<sec>> : sec \in sections}
            \cup {<<unnamed, unnamed>>, <<Section(<<"L">>, <<>>), unnamed>>}
        courses ==
            {[Plain EXCEPT !.meetingPatterns = pl] : pl \in patternLists}
            \cup {[Plain EXCEPT !.number = n, !.name = m] :
                    n \in {<<>>, <<"C", "S", " ", "1">>}, m \in {<<>>, <<"I">>}}
            \cup {[Plain EXCEPT !.except = x] : x \in excepts}
            \cup {[Plain EXCEPT !.subsections = sl] : sl \in sectionLists}
        blank == [Plain EXCEPT !.number = <<>>]
        few == {<<Plain>>, <<blank>>, <<blank, blank>>, <<Plain, blank>>}
        courseLists == {<<>>, <<Plain, Plain>>} \cup few \cup {<<c>> : c \in courses}
        follow(date, weekday) == [date |-> date, type |-> FollowType, weekday |-> weekday]
        dateLists ==
            { <<>>,
              <<follow(OD, 1)>>,
              <<follow(OD, 2)>>,
              <<follow(DateText(3), 0)>>,
              <<follow(DateText(3), 1)>>,
              <<follow(DateText(TermSpan), GetDay(Day0 + TermSpan))>>,
              <<follow(DateText(TermSpan), (GetDay(Day0 + TermSpan) + 1) % 7)>>,
              <<follow(DateText(0 - 1), 3)>>,
              <<follow(DateText(0 - 1), 4)>>,
              <<follow(<<>>, 1)>>,
              <<follow(<<"x">>, 1)>>,
              <<[date |-> <<>>, type |-> NoClassType, reason |-> <<>>]>>,
              <<[date |-> DateText(TermSpan), type |-> NoClassType, reason |-> <<>>]>>,
              <<[date |-> OD, type |-> NoClassType, reason |-> <<>>], follow(OD2, 4)>> }
        ranges == {<<A25Start, late>>, <<late, A25Start>>, <<A25Start, A25Start>>,
                   <<<<>>, late>>, <<A25Start, <<>>>>, <<<<>>, <<>>>>}
        ids == {<<"A">>, <<>>}
        first ==
            {Term(id, r[1], r[2], <<Plain>>, dl) : id \in ids, r \in ranges, dl \in dateLists}
            \cup {Term(id, A25Start, late, cl, <<>>) : id \in ids, cl \in courseLists}
        pair ==
            {Term(id, r[1], r[2], cl, <<>>) :
                id \in ids \cup {<<"B">>},
                r \in {<<A25Start, late>>, <<late, A25Start>>},
                cl \in few}
    IN  {[name |-> <<"V">>, terms |-> <<t>>] : t \in first}
        \cup {[name |-> <<"V">>, terms |-> <<t, u>>] : t \in pair, u \in pair}

\* feed files whose product id cannot be decoded, by the name they have in the
\* history: a third segment outside the base64url alphabet, one of a length no
\* base64 text has, one that is no gzip stream, a gzip stream cut short, a
\* gzip stream of a JSON text cut short, and product ids of two and of one
\* segment
BadFiles ==
    ("importIcs of text outside the alphabet" :>
        createEvents(<<>>, <<"X">>, ProductId(<<"A", "!", "A", "A">>)))
    @@ ("importIcs of text of a wrong length" :>
        createEvents(<<>>, <<"X">>, ProductId(<<"A", "A", "A", "A", "A">>)))
    @@ ("importIcs of a stream that is no gzip" :>
        createEvents(<<>>, <<"X">>,
                     ProductId(rawBase64URLEncode(TextEncode(JSONStringify(Empty))))))
    @@ ("importIcs of a gzip stream cut short" :>
        createEvents(<<>>, <<"X">>,
                     ProductId(rawBase64URLEncode(
                        SubSeq(Gzip(TextEncode(JSONStringify(Empty))), 1, 30)))))
    @@ ("importIcs of a JSON text cut short" :>
        createEvents(<<>>, <<"X">>,
                     ProductId(rawBase64URLEncode(Gzip(TextEncode(
                        SubSeq(JSONStringify(Empty), 1, Len(JSONStringify(Empty)) - 1)))))))
    @@ ("importIcs of a product id of two segments" :>
        createEvents(<<>>, <<"X">>, <<"-", "/", "/", "X">>))
    @@ ("importIcs of a product id of one segment" :>
        createEvents(<<>>, <<"X">>, <<"X">>))

----------------------------------------------------------------------------
(* Specifications *)

\* the state the constructor leaves, the persisted calendar being cal
Constructed(cal) ==
    /\ calendar = cal
    /\ errors = <<>>
    /\ ical = NullFeed
    /\ generateWarnings = <<>>
    /\ runs = <<>>
    /\ last = NoRun
    /\ ended = NoEnd
    /\ started = FALSE
    /\ edits = <<>>
    /\ toast = [message |-> <<>>, class |-> "none"]
    /\ parsing = NoParse
    /\ excel = NoImport
    /\ importWarnings = <<>>
    /\ registry = academicCalendars
    /\ shared = <<>>

Init == \E cal \in SessionCalendars : Constructed(cal)

Next ==
    \/ init
    \/ Resume
    \/ reset
    \/ addTerm
    \/ \E t \in 1..Len(calendar.terms) : addCourse(t)
    \/ ical # NullFeed /\ importIcs(ical, "importIcs of the stored feed")
    \/ \E file \in Files : importIcs(file, "importIcs")

\* editing sessions
Spec == Init /\ [][Next]_vars

InitExpand == \E cal \in Calendars : Constructed(cal)

NextExpand == init \/ Resume

\* one generateICal run on every calendar of Calendars
SpecExpand == InitExpand /\ [][NextExpand]_vars

InitValidate == \E cal \in ValidateCalendars : Constructed(cal)

\* one generateICal run, and with it one call of validate, on every calendar
\* of ValidateCalendars
SpecValidate == InitValidate /\ [][NextExpand]_vars

NextImport ==
    \/ init
    \/ Resume
    \/ ical # NullFeed /\ importIcs(ical, "importIcs of the stored feed")
    \/ \E name \in DOMAIN BadFiles : importIcs(BadFiles[name], name)

\* imports of the stored feed and of feed files that cannot be decoded
SpecImport == Init /\ [][NextImport]_vars

InitExcel == Constructed(Empty)

NextExcel ==
    \/ \E sheetNames \in 0..2 : \E sheet \in {<<>>} \cup {<<row>> : row \in FirstRows} :
        OpenWorkbook(sheetNames, sheet)
    \/ \E name \in DOMAIN Rows : ScanStep(Rows[name])
    \/ EndOfSheet

\* one call of parseExcelCalendar on every sheet of up to MaxRows rows of Rows
SpecExcel == InitExcel /\ [][NextExcel]_vars

\* calls of parseMeetingPattern on each of PatternTexts
InitPattern == Constructed(Empty)

NextPattern == (\E pattern \in PatternTexts : ParsePattern(pattern)) \/ ParseAgain

SpecPattern == InitPattern /\ [][NextPattern]_vars

\* the workbooks of the editing sessions: one of two sheets; a sheet of the
\* title alone; a title, the marker, the labels and a lecture; the same and a
\* lecture with a meeting pattern line that does not parse; that lecture alone
ExcelFiles ==
    { NoFile,
      Workbook(2, <<Rows.enrolled>>),
      Workbook(1, <<Rows.enrolled>>),
      Workbook(1, <<Rows.enrolled, Rows.enrolledSections, Rows.labels, Rows.lecture>>),
      Workbook(1, <<Rows.enrolled, Rows.enrolledSections, Rows.labels, Rows.lecture,
                    Rows.badLine>>),
      Workbook(1, <<Rows.enrolled, Rows.enrolledSections, Rows.labels, Rows.badLine>>) }

InitImportExcel == Constructed(Empty)

NextImportExcel ==
    \/ init
    \/ Resume
    \/ reset
    \/ \E file \in ExcelFiles : importExcel(file)

\* editing sessions with spreadsheet imports
SpecImportExcel == InitImportExcel /\ [][NextImportExcel]_vars

\* the calendars of the editing sessions with the built-in terms: none, and
\* one term with a course that has a subsection
EditorCalendars ==
    { Empty,
      [name |-> <<"F">>,
       terms |-> <<Span(<<"A">>, 0, TermSpan,
                        <<Course(<<"C", "S", " ", "1">>, Lecture(<<1, 4>>, <<"H">>), <<>>,
                                 <<Section(<<"L">>, <<>>)>>)>>)>>] }

\* data rows laid out as the labels are: a lecture whose course listing has
\* no ' - ' and with it no course name, and a lecture outside the built-in
\* calendars whose end date lies before its start date
OddRows ==
    [ noName |->
    <<<<"C", "S", " ", "1">>,
       <<"C", "S", " ", "1", "-", "A", "L", "0", "1">>,
       <<"Lecture">>,
       <<"M", "-", "R", " ", "|", " ", "0", "9", ":", "0", "0", " ", "A", "M", " ", "-", " ", "0", "9", ":", "5", "0", " ", "A", "M", " ", "|", " ", "H">>,
       <<"Registered">>,
       <<"8", "/", "2", "1", "/", "2", "5">>,
       <<"1", "0", "/", "1", "0", "/", "2", "5">>>>,
      reversed |->
    <<<<"M", "A", " ", "2", " ", "-", " ", "B">>,
       <<"M", "A", " ", "2", "-", "E", "L", "0", "1", " ", "-", " ", "B">>,
       <<"Lecture">>,
       <<"M", "-", "R", " ", "|", " ", "0", "9", ":", "0", "0", " ", "A", "M", " ", "-", " ", "0", "9", ":", "5", "0", " ", "A", "M", " ", "|", " ", "H">>,
       <<"Registered">>,
       <<"6", "/", "3", "0", "/", "2", "5">>,
       <<"6", "/", "1", "/", "2", "5">>>> ]

\* the rows of the sheets of a Workday export, by place: the title, the
\* marker, the labels, and then data rows
SheetRows(i) ==
    IF i = 0 THEN {Rows.enrolled}
    ELSE IF i = 1 THEN {Rows.enrolledSections}
    ELSE IF i = 2 THEN {Rows.labels}
    ELSE {Rows.lecture, Rows.lectureB, Rows.laboratory, Rows.summer, Rows.june,
          OddRows.noName, OddRows.reversed}

InitSheet == Constructed(Empty)

NextSheet ==
    \/ OpenWorkbook(1, <<Rows.enrolled>>)
    \/ \E row \in SheetRows(excel.i) : ScanStep(row)
    \/ EndOfSheet

\* one call of parseExcelCalendar on every sheet of a title, a marker, the
\* labels and data rows, up to MaxRows rows
SpecSheet == InitSheet /\ [][NextSheet]_vars

InitEditor == \E cal \in EditorCalendars : Constructed(cal)

NextEditor ==
    \/ init
    \/ Resume
    \/ reset
    \/ addDefaultTerms
    \/ addSummerTerms
    \/ \E t \in 1..Len(calendar.terms) : addCourse(t)
    \/ \E t \in 1..Len(calendar.terms) : addSpecialDate(t)
    \/ \E t \in 1..Len(calendar.terms) : \E c \in 1..Len(calendar.terms[t].courses) :
            addSubsection(t, c)

\* editing sessions with the built-in terms
SpecEditor == InitEditor /\ [][NextEditor]_vars

----------------------------------------------------------------------------
(* Properties *)

\* the dates of a term, from start to end
TermDates(term) ==
    IF UTCDate(term.start) = Invalid \/ UTCDate(term.end) = Invalid
    THEN {}
    ELSE UTCDate(term.start)..UTCDate(term.end)

RECURSIVE DatesUpTo(_, _)
\* the number of dates of the first n terms, each term counted by itself
DatesUpTo(cal, n) ==
    IF n = 0 THEN 0 ELSE DatesUpTo(cal, n - 1) + Cardinality(TermDates(cal.terms[n]))

TotalDates(cal) == DatesUpTo(cal, Len(cal.terms))

\* the place of the date d of term ti in the order the dates are walked
Position(cal, ti, d) == DatesUpTo(cal, ti - 1) + (d - UTCDate(cal.terms[ti].start) + 1)

\* the latest generateICal run read a calendar the validator accepts
PassedValidation == last.seq > 0 /\ Len(validate(last.cal).errors) = 0

\* ... and walked every date of it
Complete == PassedValidation /\ TotalDates(last.cal) <= MaxDates

Terms == 1..Len(last.cal.terms)

Meetings == {"course", "subsection"}

\* the events of the latest run that term ti produced on date d, by kind
EventsOn(ti, d, kinds) ==
    SelectSeq(last.events,
              LAMBDA e : e.src.term = ti /\ e.src.date = d /\ e.src.kind \in kinds)

\* entry k of term.dates is an override for the date d
Matches(term, k, d) == term.dates[k].date = FormatDate(d)

\* the first entry of term.dates for the date d, 0 when there is none
FirstOverride(term, d) ==
    IF \E k \in 1..Len(term.dates) : Matches(term, k, d)
    THEN CHOOSE k \in 1..Len(term.dates) :
            Matches(term, k, d) /\ \A j \in 1..(k - 1) : ~Matches(term, j, d)
    ELSE 0

\* some meeting pattern of the course or of its subsections meets on weekday w
Meets(course, w) ==
    \/ \E k \in 1..Len(course.meetingPatterns) : Includes(course.meetingPatterns[k].weekdays, w)
    \/ \E si \in 1..Len(course.subsections) :
        \E k \in 1..Len(course.subsections[si].meetingPatterns) :
            Includes(course.subsections[si].meetingPatterns[k].weekdays, w)

\* C1 as stated: in the event list of a run on a calendar that passes
\* validation, a date for which term.dates holds a no-class override, at any
\* place of the list, has no course event and no subsection event of that term
C1_NoClassAnywhere ==
    PassedValidation =>
        \A ti \in Terms : \A d \in TermDates(last.cal.terms[ti]) :
            (\E k \in 1..Len(last.cal.terms[ti].dates) :
                /\ Matches(last.cal.terms[ti], k, d)
                /\ last.cal.terms[ti].dates[k].type = NoClassType)
            => EventsOn(ti, d, Meetings) = <<>>

\* C1, amended: in the event list of a run on a calendar that passes
\* validation, a date whose first override in term.dates is a no-class
\* override has no course event and no subsection event of that term,
\* whatever the meeting patterns are and whatever overrides follow it
C1_FirstNoClass ==
    PassedValidation =>
        \A ti \in Terms : \A d \in TermDates(last.cal.terms[ti]) :
            LET k == FirstOverride(last.cal.terms[ti], d)
            IN  (k > 0 /\ last.cal.terms[ti].dates[k].type = NoClassType)
                => EventsOn(ti, d, Meetings) = <<>>

\* a run walked a date whose first override is no-class and whose second is a
\* follow to a weekday the course meets on: only the no-class event is there
C1_Witness ==
    /\ Complete
    /\ \E ti \in Terms : \E d \in TermDates(last.cal.terms[ti]) :
        LET term == last.cal.terms[ti]
        IN  /\ Len(term.dates) = 2
            /\ Matches(term, 1, d) /\ term.dates[1].type = NoClassType
            /\ Matches(term, 2, d) /\ term.dates[2].type = FollowType
            /\ Meets(term.courses[1], term.dates[2].weekday)
            /\ Len(EventsOn(ti, d, {"no-class"})) = 1
            /\ EventsOn(ti, d, Meetings) = <<>>

\* time of day, title and location of an event
Shape(e) == <<e.start[4], e.start[5], e.end[4], e.end[5], e.title, e.location>>

Shapes(events) == [k \in 1..Len(events) |-> Shape(events[k])]

OverrideFree(term, d) == \A k \in 1..Len(term.dates) : ~Matches(term, k, d)

\* the all-day event titled Follow <W> Schedule on date d
IsFollowMarker(e, d, w) ==
    /\ e.title = <<"Follow ">> \o weekdayToString(w) \o <<" Schedule">>
    /\ e.start = CivilFromDays(d)
    /\ e.end = CivilFromDays(d + 1)

\* what C2 says of the date d of term ti when it follows weekday w
FollowsWeekday(ti, d, w) ==
    /\ \A d0 \in TermDates(last.cal.terms[ti]) :
        (OverrideFree(last.cal.terms[ti], d0) /\ GetDay(d0) = w)
        => Shapes(EventsOn(ti, d, Meetings)) = Shapes(EventsOn(ti, d0, Meetings))
    /\ Len(EventsOn(ti, d, {"follow"})) = 1
    /\ IsFollowMarker(EventsOn(ti, d, {"follow"})[1], d, w)

\* C2 as stated: a date for which term.dates holds a follow override to W, at
\* any place of the list, has the course and subsection events of an
\* override-free date of weekday W and exactly one Follow <W> Schedule event
C2_FollowAnywhere ==
    Complete =>
        \A ti \in Terms : \A d \in TermDates(last.cal.terms[ti]) :
            \A k \in 1..Len(last.cal.terms[ti].dates) :
                (/\ Matches(last.cal.terms[ti], k, d)
                 /\ last.cal.terms[ti].dates[k].type = FollowType)
                => FollowsWeekday(ti, d, last.cal.terms[ti].dates[k].weekday)

\* C2, amended: a date whose first override in term.dates is a follow override
\* to W has the course and subsection events (same start time, end time,
\* title, location) of an override-free date of the term whose natural weekday
\* is W, and exactly one all-day event titled Follow <W> Schedule
C2_FirstFollow ==
    Complete =>
        \A ti \in Terms : \A d \in TermDates(last.cal.terms[ti]) :
            LET k == FirstOverride(last.cal.terms[ti], d)
            IN  (k > 0 /\ last.cal.terms[ti].dates[k].type = FollowType)
                => FollowsWeekday(ti, d, last.cal.terms[ti].dates[k].weekday)

\* a run walked a date that follows a weekday W on which the course meets while
\* it does not meet on the date's own weekday, the term has an override-free
\* date of weekday W, and a second override of the date asks for another weekday
C2_Witness ==
    /\ Complete
    /\ \E ti \in Terms : \E d \in TermDates(last.cal.terms[ti]) :
        LET term == last.cal.terms[ti]
        IN  /\ Len(term.dates) = 2
            /\ Matches(term, 1, d) /\ term.dates[1].type = FollowType
            /\ Matches(term, 2, d) /\ term.dates[2].type = FollowType
            /\ term.dates[2].weekday # term.dates[1].weekday
            /\ ~Meets(term.courses[1], GetDay(d))
            /\ \E d0 \in TermDates(term) :
                OverrideFree(term, d0) /\ GetDay(d0) = term.dates[1].weekday
            /\ EventsOn(ti, d, Meetings) # <<>>
            /\ Len(EventsOn(ti, d, {"follow"})) = 1

\* C3: for every course and every date of its except list, the event list of a
\* run on a calendar that passes validation has no course-level meeting event
\* of that course on that date
C3_CourseExcept ==
    PassedValidation =>
        \A ti \in Terms : \A ci \in 1..Len(last.cal.terms[ti].courses) :
            \A x \in 1..Len(last.cal.terms[ti].courses[ci].except) :
                \A k \in 1..Len(last.events) :
                    ~(/\ last.events[k].src.kind = "course"
                      /\ last.events[k].src.term = ti
                      /\ last.events[k].src.course = ci
                      /\ last.events[k].src.date
                            = UTCDate(last.cal.terms[ti].courses[ci].except[x]))

\* C4: for every subsection and every date of its except list, the event list
\* of a run on a calendar that passes validation has no event of that
\* subsection on that date
C4_SubsectionExcept ==
    PassedValidation =>
        \A ti \in Terms : \A ci \in 1..Len(last.cal.terms[ti].courses) :
            \A si \in 1..Len(last.cal.terms[ti].courses[ci].subsections) :
                \A x \in 1..Len(last.cal.terms[ti].courses[ci].subsections[si].except) :
                    \A k \in 1..Len(last.events) :
                        ~(/\ last.events[k].src.kind = "subsection"
                          /\ last.events[k].src.term = ti
                          /\ last.events[k].src.course = ci
                          /\ last.events[k].src.sub = si
                          /\ last.events[k].src.date
                                = UTCDate(last.cal.terms[ti].courses[ci].subsections[si].except[x]))

TooMany == <<"too many events">>

\* the latest run is suspended at the encoder or has resumed from it
ReachedEncoder == (\E k \in 1..Len(runs) : runs[k].seq = last.seq) \/ ended.seq = last.seq

\* C5: a run on a calendar that passes validation counts every date of every
\* term, overlapping terms separately.  With at most 1000 dates in total it
\* walks them all, does not report too many events and goes on to the
\* encoder; with 1001 or more it stops at the 1001st date with events of the
\* first 1000 dates only, adds too many events to errors, and neither calls
\* the encoder nor stores a feed
C5_Cap ==
    PassedValidation =>
        IF TotalDates(last.cal) <= MaxDates
        THEN /\ last.i = TotalDates(last.cal)
             /\ ~Includes(errors, TooMany)
             /\ ReachedEncoder
        ELSE /\ last.i = MaxDates + 1
             /\ \A k \in 1..Len(last.events) :
                    Position(last.cal, last.events[k].src.term, last.events[k].src.date)
                        <= MaxDates
             /\ errors = <<TooMany>>
             /\ ~ReachedEncoder
             /\ ical = NullFeed

\* a run on two overlapping terms of 1001 dates in total stopped on the last
\* date of the second term, after events of both terms
C5_Witness ==
    /\ PassedValidation
    /\ Len(last.cal.terms) = 2
    /\ TotalDates(last.cal) = MaxDates + 1
    /\ TermDates(last.cal.terms[1]) \cap TermDates(last.cal.terms[2]) # {}
    /\ last.i = MaxDates + 1
    /\ errors = <<TooMany>>
    /\ \E k \in 1..Len(last.events) : last.events[k].src.term = 2

\* the number of entries of seq that are x
Count(seq, x) == Cardinality({k \in 1..Len(seq) : seq[k] = x})

\* C6: at the return of a generateICal run that aborts with too many events
\* no output is available: ical is null, and errors holds too many events
\* exactly once
C6_NoOutputAfterAbort ==
    [][(/\ last'.seq # last.seq
        /\ Len(validate(calendar').errors) = 0
        /\ TotalDates(calendar') > MaxDates)
       => (ical' = NullFeed /\ Count(errors', TooMany) = 1)]_vars

\* C7: a generateICal run on a calendar for which the validator reports an
\* error walks no date and calls neither the encoder nor the feed writer; at
\* its return errors is the validator's error list, generateWarnings the
\* validator's warnings, and ical is null
C7_ValidationGate ==
    [][(last'.seq # last.seq /\ Len(validate(calendar').errors) > 0)
       => /\ errors' = validate(calendar').errors
          /\ generateWarnings' = validate(calendar').warnings
          /\ ical' = NullFeed
          /\ last'.i = 0
          /\ last'.events = <<>>
          /\ runs' = runs
          /\ ended' = ended]_vars

\* an edit has made a calendar invalid whose feed was stored: the run has
\* returned with the validator's errors and warnings and the feed is gone
C7_Witness ==
    /\ edits # <<>>
    /\ ended.written
    /\ last.seq > ended.seq
    /\ last.cal = calendar
    /\ Len(validate(calendar).errors) > 0
    /\ Len(validate(calendar).warnings) > 0
    /\ errors = validate(calendar).errors
    /\ generateWarnings = validate(calendar).warnings
    /\ ical = NullFeed

\* C8: when the validator reports no error, the dates are at most 1000 and
\* the encoder and the feed writer succeed, the run ends with a feed stored,
\* errors empty and generateWarnings the validator's warnings, however many
\* warnings there are; and no number of warnings keeps such a run from the
\* encoder
C8_WarningsNeverBlock ==
    /\ Complete => ReachedEncoder
    /\ (/\ ended.seq > 0 /\ ended.encoded /\ ended.written
        /\ Len(validate(ended.cal).errors) = 0
        /\ TotalDates(ended.cal) <= MaxDates)
       => /\ ical # NullFeed
          /\ errors = <<>>
          /\ generateWarnings = validate(ended.cal).warnings

\* a run on a calendar with warnings has stored its feed
C8_Witness ==
    /\ ended.seq > 0 /\ ended.encoded /\ ended.written
    /\ Len(validate(ended.cal).warnings) > 0
    /\ ical # NullFeed
    /\ ical.events = last.events
    /\ Len(generateWarnings) > 0

\* C9: decodeConfig gives back the calendar encodeCalendar was called on,
\* for every calendar a run encodes: hidden flags, reasons, empty except
\* lists, empty subsection lists and null locations included
C9_CodecRoundTrip ==
    \A k \in 1..Len(runs) :
        runs[k].calendarData.ok
        => decodeConfig(runs[k].calendarData.val) = [ok |-> TRUE, val |-> runs[k].cal]

\* a run has encoded a calendar with a hidden override without a reason, an
\* override with a reason, an empty except list, an empty subsection list and
\* a null location
C9_Witness ==
    \E k \in 1..Len(runs) :
        /\ runs[k].calendarData.ok
        /\ Len(runs[k].cal.terms[1].dates) = 2
        /\ HiddenOf(runs[k].cal.terms[1].dates[1])
        /\ "reason" \in DOMAIN runs[k].cal.terms[1].dates[2]
        /\ runs[k].cal.terms[1].courses[1].except = <<>>
        /\ runs[k].cal.terms[1].courses[1].subsections = <<>>
        /\ runs[k].cal.terms[1].courses[1].meetingPatterns[1].location = Null
        /\ decodeConfig(runs[k].calendarData.val).val = runs[k].cal

\* the '//' of a text: the positions where two "/" stand side by side
DoubleSlashes(text) == {p \in 1..(Len(text) - 1) : text[p] = "/" /\ text[p + 1] = "/"}

\* what C10 says of a stored feed, C being the calendar its run read
FeedCarries(feed) ==
    /\ feed.productId = <<"-", "/", "/", "tools.calebc.co", "/", "/">>
                            \o encodeCalendar(feed.src.cal) \o <<"/", "/", "EN">>
    /\ DoubleSlashes(encodeCalendar(feed.src.cal)) = {}
    /\ Len(Split(feed.productId)) = 4
    /\ Split(feed.productId)[3] = encodeCalendar(feed.src.cal)

\* C10: every feed generateICal stores has the product id
\* '-//tools.calebc.co//' + encodeCalendar(C) + '//EN' for the calendar C its
\* run read, the encoded segment holds no '//' and is the third segment of
\* the product id split on '//', and importIcs on that feed replaces
\* calendar.name and calendar.terms by C's
C10_ProductIdRoundTrip ==
    [][/\ ical' # NullFeed => FeedCarries(ical')
       /\ edits' = Append(edits, "importIcs of the stored feed")
          => (calendar'.name = ical.src.cal.name /\ calendar'.terms = ical.src.cal.terms)]_vars

\* a term was added to a calendar while its run was suspended, the run has
\* stored its feed, and importIcs on the feed has taken the term away again
C10_Witness ==
    /\ ical # NullFeed
    /\ edits = <<"addTerm", "importIcs of the stored feed">>
    /\ Len(ical.src.cal.terms) = 1
    /\ calendar.name = ical.src.cal.name
    /\ calendar.terms = ical.src.cal.terms
    /\ last.cal = calendar

----------------------------------------------------------------------------
\* C11: an importIcs of a feed file whose product id cannot be decoded (text
\* that is no base64url, a corrupt compressed stream, malformed JSON, fewer
\* than three segments) gets an error value from decodeConfig, shows
\* 'Failed to decode calendar: <cause>' as an error toast, and leaves
\* calendar.name, calendar.terms, errors, generateWarnings and ical as they
\* were, starting no generateICal run.
C11_DecodeFailure ==
    [][\A name \in DOMAIN BadFiles :
          edits' = Append(edits, name) =>
              /\ ~decodeConfig(Element(Split(BadFiles[name].productId), 2)).ok
              /\ Len(toast'.message) = 2
              /\ toast'.message[1] = "Failed to decode calendar: "
              /\ toast'.message[2] \in {"TypeError", "SyntaxError"}
              /\ toast'.class = "error"
              /\ calendar'.name = calendar.name
              /\ calendar'.terms = calendar.terms
              /\ errors' = errors
              /\ generateWarnings' = generateWarnings
              /\ ical' = ical
              /\ runs' = runs
              /\ last' = last]_vars

\* a feed was stored and imported, then a file with malformed JSON was picked:
\* the error is shown and the calendar still has its term
C11_Witness ==
    /\ edits = <<"importIcs of the stored feed", "importIcs of a JSON text cut short">>
    /\ toast = [message |-> <<"Failed to decode calendar: ", "SyntaxError">>, class |-> "error"]
    /\ Len(calendar.terms) = 1
    /\ errors = <<>>

----------------------------------------------------------------------------
----------------------------------------------------------------------------
\* the number a text of digits stands for
NumberOf(text) == IF text = <<>> THEN 0 ELSE ParseNat(text, 1, 0).val

\* [year, month, day, hour, minute] read off the texts 'yyyy-MM-dd' and 'HH:mm'
DateTimeOf(date, time) ==
    << NumberOf(SubSeq(date, 1, 4)), NumberOf(SubSeq(date, 6, 7)), NumberOf(SubSeq(date, 9, 10)),
       NumberOf(SubSeq(time, 1, 2)), NumberOf(SubSeq(time, 4, 5)) >>

\* the events of the latest run that pattern k of course ci of term ti produced
PatternEvents(ti, ci, k) ==
    SelectSeq(last.events,
              LAMBDA e : e.src.term = ti /\ e.src.kind = "course"
                         /\ e.src.course = ci /\ e.src.mp = k)

\* the term has no override dates and its courses and subsections no except dates
Unexcepted(term) ==
    /\ term.dates = <<>>
    /\ \A ci \in 1..Len(term.courses) :
        /\ term.courses[ci].except = <<>>
        /\ \A si \in 1..Len(term.courses[ci].subsections) :
            term.courses[ci].subsections[si].except = <<>>

\* C13: in a run that validation and the cap let through, a term without
\* override dates and without except dates has, for each course and each of
\* its meeting patterns, exactly one timed event (start d@startTime, end
\* d@endTime, title '<number> - <name>', the pattern's location) on every date
\* d from term.start to term.end, both included, whose natural weekday
\* (0 = Sunday) is in the pattern's weekdays, and no event on any other date.
C13_MeetingEvents ==
    Complete =>
        \A ti \in Terms :
            Unexcepted(last.cal.terms[ti]) =>
                \A ci \in 1..Len(last.cal.terms[ti].courses) :
                    \A k \in 1..Len(last.cal.terms[ti].courses[ci].meetingPatterns) :
                        LET term == last.cal.terms[ti]
                            course == term.courses[ci]
                            mp == course.meetingPatterns[k]
                            days == {d \in TermDates(term) : GetDay(d) \in {mp.weekdays[j] : j \in 1..Len(mp.weekdays)}}
                            evs == PatternEvents(ti, ci, k)
                        IN  /\ Len(evs) = Cardinality(days)
                            /\ \A d \in days :
                                \E j \in 1..Len(evs) :
                                    /\ evs[j].start = DateTimeOf(FormatDate(d), mp.startTime)
                                    /\ evs[j].end = DateTimeOf(FormatDate(d), mp.endTime)
                            /\ \A j \in 1..Len(evs) :
                                /\ evs[j].title = course.number \o <<" - ">> \o course.name
                                /\ evs[j].location =
                                       (IF Truthy(mp.location) THEN mp.location ELSE Undefined)

\* a term from Thursday 2025-08-21 to Tuesday 2025-09-02 whose course has two
\* patterns that both meet on Thursdays: each has its event on the first date,
\* and the second, which also meets on Tuesdays, has four events, the last of
\* them on the last date of the term
C13_Witness ==
    /\ Complete
    /\ Len(last.cal.terms) = 1
    /\ Unexcepted(last.cal.terms[1])
    /\ last.cal.terms[1].start = A25Start
    /\ Len(last.cal.terms[1].courses[1].meetingPatterns) = 2
    /\ PatternEvents(1, 1, 1)[1].start = <<2025, 8, 21, 9, 0>>
    /\ PatternEvents(1, 1, 2)[1].start = <<2025, 8, 21, 9, 0>>
    /\ Len(PatternEvents(1, 1, 2)) = 4
    /\ PatternEvents(1, 1, 2)[4].end = <<2025, 9, 2, 9, 50>>
    /\ last.cal.terms[1].end = <<"2", "0", "2", "5", "-", "0", "9", "-", "0", "2">>

----------------------------------------------------------------------------
AllKinds == {"no-class", "follow", "course", "subsection"}

\* [year, month, day] of the date d, read off its text
DayOf(d) == SubSeq(DateTimeOf(FormatDate(d), Time("0", "0", "0", "0")), 1, 3)

\* C14: in a run that validation and the cap let through, a date d of a term
\* whose first override for d is no-class has, when the override is not
\* hidden, exactly one event of that term, an all-day event from d to d + 1
\* titled 'No Classes (<reason>)' when the reason is non-empty and
\* 'No Classes' otherwise, whatever other overrides the term lists for d;
\* when the override is hidden the term has no event at all on d.
C14_NoClassEvent ==
    Complete =>
        \A ti \in Terms : \A d \in TermDates(last.cal.terms[ti]) :
            LET term == last.cal.terms[ti]
                k == FirstOverride(term, d)
                evs == EventsOn(ti, d, AllKinds)
            IN  (k > 0 /\ term.dates[k].type = NoClassType) =>
                    IF "hidden" \in DOMAIN term.dates[k] /\ term.dates[k].hidden
                    THEN evs = <<>>
                    ELSE /\ Len(evs) = 1
                         /\ evs[1].start = DayOf(d)
                         /\ evs[1].end = DayOf(d + 1)
                         /\ evs[1].title =
                                (IF "reason" \in DOMAIN term.dates[k] /\ term.dates[k].reason # <<>>
                                 THEN <<"No Classes (">> \o term.dates[k].reason \o <<")">>
                                 ELSE <<"No Classes">>)

\* a term lists two no-class overrides for one date, the first with a reason,
\* the second hidden: the date has the one event 'No Classes (R)'; the course
\* would meet on that date
C14_Witness ==
    /\ Complete
    /\ \E ti \in Terms : \E d \in TermDates(last.cal.terms[ti]) :
        LET term == last.cal.terms[ti]
        IN  /\ Len(term.dates) = 2
            /\ Matches(term, 1, d) /\ term.dates[1].type = NoClassType
            /\ ~HiddenOf(term.dates[1])
            /\ Matches(term, 2, d) /\ term.dates[2].type = NoClassType
            /\ HiddenOf(term.dates[2])
            /\ Meets(term.courses[1], GetDay(d))
            /\ Len(EventsOn(ti, d, AllKinds)) = 1
            /\ EventsOn(ti, d, AllKinds)[1].title = <<"No Classes (", "R", ")">>

----------------------------------------------------------------------------
\* the latest generateICal run was stopped by the validator: errors holds
\* the list validate returned for the calendar
Refused == last.outcome = "invalid" /\ calendar = last.cal

\* 'Term #n' + rest
TermMessage(n, rest) == <<"Term ", "#", ToString(n), rest>>

BlankReversed(term) ==
    term.id = <<>> /\ term.start # <<>> /\ term.end # <<>> /\ StrLess(term.end, term.start)

\* an error about the course number of a course of the term at position n
\* that has no id
IsNumberError(msg, n) ==
    /\ Len(msg) > 5
    /\ SubSeq(msg, 1, 4) = <<"Term ", "#", ToString(n), ", course ">>
    /\ msg[Len(msg)] = ": missing/invalid number"

\* C15: for a term at position n (from 1) with a blank id and start > end, the
\* errors validate returns hold 'Term #n: missing/invalid name' and
\* 'Term #n: start > end'; the courses of that term are still checked (a
\* course without a number has its error) and so are the terms behind it (a
\* later term with a blank id and start > end has both its errors).
C15_NoEarlyExit ==
    Refused =>
        \A n \in 1..Len(calendar.terms) :
            BlankReversed(calendar.terms[n]) =>
                /\ Includes(errors, TermMessage(n, ": missing/invalid name"))
                /\ Includes(errors, TermMessage(n, ": start > end"))
                /\ (\E ci \in 1..Len(calendar.terms[n].courses) :
                        calendar.terms[n].courses[ci].number = <<>>)
                   => \E k \in 1..Len(errors) : IsNumberError(errors[k], n)
                /\ \A j \in (n + 1)..Len(calendar.terms) :
                        (calendar.terms[j].start # <<>> /\ calendar.terms[j].end # <<>>
                         /\ StrLess(calendar.terms[j].end, calendar.terms[j].start))
                        => Includes(errors, <<"Term ">> \o TermName(calendar.terms[j], j)
                                                \o <<": start > end">>)

\* two terms without id and with start > end, the first with a course
\* without number: the errors name them #1 and #2
C15_Witness ==
    /\ Refused
    /\ Len(calendar.terms) = 2
    /\ BlankReversed(calendar.terms[1])
    /\ BlankReversed(calendar.terms[2])
    /\ calendar.terms[1].courses[1].number = <<>>
    /\ Includes(errors, TermMessage(1, ": missing/invalid name"))
    /\ Includes(errors, TermMessage(1, ": start > end"))
    /\ Includes(errors, TermMessage(2, ": missing/invalid name"))
    /\ Includes(errors, TermMessage(2, ": start > end"))
    /\ \E k \in 1..Len(errors) : IsNumberError(errors[k], 1)

----------------------------------------------------------------------------
\* the latest generateICal run got no error from validate
Accepted == last.seq > 0 /\ last.outcome # "invalid"

\* C16: when validate returns no error the calendar has a term and a course;
\* every term has a non-empty id that no other term has, non-empty start and
\* end with start <= end, as texts and as dates; every override date of every
\* term is non-empty and lies within [term.start, term.end].
C16_TermSoundness ==
    Accepted =>
        /\ Len(last.cal.terms) >= 1
        /\ \E ti \in Terms : Len(last.cal.terms[ti].courses) >= 1
        /\ \A ti \in Terms :
            LET term == last.cal.terms[ti]
            IN  /\ term.id # <<>>
                /\ \A tj \in Terms : tj # ti => last.cal.terms[tj].id # term.id
                /\ term.start # <<>> /\ term.end # <<>>
                /\ ~StrLess(term.end, term.start)
                /\ UTCDate(term.start) <= UTCDate(term.end)
                /\ \A k \in 1..Len(term.dates) :
                    /\ term.dates[k].date # <<>>
                    /\ ~StrLess(term.dates[k].date, term.start)
                    /\ ~StrLess(term.end, term.dates[k].date)
                    /\ UTCDate(term.dates[k].date) \in TermDates(term)

\* validate accepted a calendar with two override dates
C16_Witness ==
    /\ Accepted
    /\ Len(last.cal.terms) = 1
    /\ last.cal.terms[1].id = <<"A">>
    /\ Len(last.cal.terms[1].dates) = 2
    /\ last.cal.terms[1].dates[2].type = FollowType

----------------------------------------------------------------------------
\* the meeting patterns of the courses and subsections of a calendar
PatternsOf(cal) ==
    UNION { UNION { {cal.terms[ti].courses[ci].meetingPatterns[k] :
                        k \in 1..Len(cal.terms[ti].courses[ci].meetingPatterns)}
                    \cup UNION { {cal.terms[ti].courses[ci].subsections[si].meetingPatterns[k] :
                                    k \in 1..Len(cal.terms[ti].courses[ci].subsections[si].meetingPatterns)} :
                                 si \in 1..Len(cal.terms[ti].courses[ci].subsections) } :
                    ci \in 1..Len(cal.terms[ti].courses) } :
            ti \in 1..Len(cal.terms) }

\* minutes since midnight of a start or end [year, month, day, hour, minute]
MinuteOf(at) == at[4] * 60 + at[5]

\* a list of meeting patterns with every missing location filled in, and a
\* pattern put in when the list is empty
FilledPatterns(mps) ==
    IF mps = <<>> THEN <<Lecture(<<1>>, <<"H">>)>>
    ELSE [k \in 1..Len(mps) |->
            IF Truthy(mps[k].location) THEN mps[k] ELSE [mps[k] EXCEPT !.location = <<"H">>]]

\* the calendar with every location and every list of meeting patterns filled
Filled(cal) ==
    [cal EXCEPT !.terms = [ti \in 1..Len(cal.terms) |->
        [cal.terms[ti] EXCEPT !.courses = [ci \in 1..Len(cal.terms[ti].courses) |->
            [cal.terms[ti].courses[ci] EXCEPT
                !.meetingPatterns = FilledPatterns(@),
                !.subsections = [si \in 1..Len(cal.terms[ti].courses[ci].subsections) |->
                    [cal.terms[ti].courses[ci].subsections[si] EXCEPT
                        !.meetingPatterns = FilledPatterns(@)]]]]]]]

\* C17: when validate returns no error, every meeting pattern of every course
\* and subsection has a non-empty startTime and endTime with
\* startTime <= endTime and a non-empty list of weekdays, and every timed event
\* the run hands to the feed writer has hour and minute of both ends and does
\* not end before it starts; missing locations and missing meeting patterns
\* add no error: the errors are those of the calendar with all of them filled
\* in.
C17_PatternSoundness ==
    /\ Accepted =>
        /\ \A mp \in PatternsOf(last.cal) :
            /\ mp.startTime # <<>> /\ mp.endTime # <<>>
            /\ ~StrLess(mp.endTime, mp.startTime)
            /\ mp.weekdays # <<>>
        /\ \A k \in 1..Len(last.events) :
            last.events[k].src.kind \in Meetings =>
                /\ Len(last.events[k].start) = 5 /\ Len(last.events[k].end) = 5
                /\ SubSeq(last.events[k].start, 1, 3) = SubSeq(last.events[k].end, 1, 3)
                /\ MinuteOf(last.events[k].start) <= MinuteOf(last.events[k].end)
        /\ validate(Filled(last.cal)).errors = <<>>
    /\ Refused => errors = validate(Filled(last.cal)).errors

\* a calendar whose course has a pattern without location was accepted: the
\* feed is stored, with the warning and the course's events
C17_Witness ==
    /\ Accepted
    /\ ended.seq = last.seq /\ ended.written
    /\ ical # NullFeed
    /\ errors = <<>>
    /\ \E mp \in PatternsOf(last.cal) : mp.location = Null
    /\ \E k \in 1..Len(generateWarnings) :
        generateWarnings[k].title[1] = "Missing location for course "
    /\ \E k \in 1..Len(ical.events) : ical.events[k].location = Undefined

----------------------------------------------------------------------------
\* the errors validate returned to the latest generateICal run
Returned == IF Refused THEN errors ELSE <<>>

\* the weekday of a date, 0 = Sunday, counted from Thursday 2025-08-21
NaturalWeekday(date) == (4 + (UTCDate(date) - UTCDate(A25Start))) % 7

\* the 'does nothing' error of an override of the term at position ti
DoesNothing(ti, special) ==
    <<"Term ">> \o TermName(last.cal.terms[ti], ti) \o <<": special date ">> \o special.date
    \o <<" does nothing (already a ">> \o weekdayToString(special.weekday) \o <<")">>

OutOfRange(ti, special, side) ==
    <<"Term ">> \o TermName(last.cal.terms[ti], ti) \o <<": special date ">> \o special.date
    \o <<side>>

\* C18: the errors validate returns hold the 'does nothing' error of a follow
\* override with a non-blank date exactly when the weekday it names is the
\* natural weekday (0 = Sunday .. 6 = Saturday) of its date; the range errors
\* are there whenever the date is before the start or after the end, whether
\* or not the override does nothing.
C18_DoesNothing ==
    last.seq > 0 =>
        \A ti \in Terms : \A k \in 1..Len(last.cal.terms[ti].dates) :
            LET term == last.cal.terms[ti]
                special == term.dates[k]
            IN  (special.type = FollowType /\ special.date # <<>>) =>
                    /\ Includes(Returned, DoesNothing(ti, special))
                        <=> (UTCDate(special.date) # Invalid
                             /\ special.weekday = NaturalWeekday(special.date))
                    /\ StrLess(special.date, term.start)
                        <=> Includes(Returned, OutOfRange(ti, special, " before term start"))
                    /\ (~StrLess(special.date, term.start) /\ StrLess(term.end, special.date))
                        <=> Includes(Returned, OutOfRange(ti, special, " after term end"))

\* a follow override behind the end of the term names the weekday its date
\* has anyway: both errors are returned
C18_Witness ==
    /\ Refused
    /\ Len(last.cal.terms) = 1
    /\ last.cal.terms[1].start = A25Start
    /\ Len(last.cal.terms[1].dates) = 1
    /\ last.cal.terms[1].dates[1].type = FollowType
    /\ StrLess(last.cal.terms[1].end, last.cal.terms[1].dates[1].date)
    /\ Len(errors) = 2
    /\ errors[1] = OutOfRange(1, last.cal.terms[1].dates[1], " after term end")
    /\ errors[2] = DoesNothing(1, last.cal.terms[1].dates[1])

----------------------------------------------------------------------------
\* an error about an except date of a subsection
IsComponentExceptError(msg) ==
    /\ \E i \in 1..Len(msg) : msg[i] = ", component "
    /\ msg[Len(msg)] \in {": missing/invalid special date", " before term start",
                           " after term end"}

\* C19: the errors validate returns hold an error for every subsection whose
\* except list has a blank entry, an entry before term.start or an entry
\* after term.end, as they do for the except list of a course.
C19_SubsectionExceptRules ==
    last.seq > 0 =>
        \A ti \in Terms : \A ci \in 1..Len(last.cal.terms[ti].courses) :
            \A si \in 1..Len(last.cal.terms[ti].courses[ci].subsections) :
                LET term == last.cal.terms[ti]
                    except == term.courses[ci].subsections[si].except
                IN  (\E k \in 1..Len(except) :
                        \/ except[k] = <<>>
                        \/ StrLess(except[k], term.start)
                        \/ StrLess(term.end, except[k]))
                    => \E k \in 1..Len(Returned) : IsComponentExceptError(Returned[k])

----------------------------------------------------------------------------
\* 'Term <term>, course #k' + rest
CourseMessage(ti, k, rest) ==
    <<"Term ">> \o TermName(last.cal.terms[ti], ti) \o <<", course ", "#", ToString(k), rest>>

\* C20: in the errors validate returns, a course without number is named by
\* its position (from 1) in the course list of its term, and a subsection
\* without name by its position in its course.
C20_PositionalNames ==
    last.seq > 0 =>
        \A ti \in Terms : \A ci \in 1..Len(last.cal.terms[ti].courses) :
            LET course == last.cal.terms[ti].courses[ci]
            IN  /\ course.number = <<>> =>
                    Includes(Returned, CourseMessage(ti, ci, ": missing/invalid number"))
                /\ \A si \in 1..Len(course.subsections) :
                    course.subsections[si].name = <<>> =>
                        \E k \in 1..Len(Returned) :
                            LET msg == Returned[k]
                            IN  /\ Len(msg) > 3
                                /\ SubSeq(msg, Len(msg) - 3, Len(msg)) =
                                      <<", component ", "#", ToString(si), ": missing/invalid name">>

----------------------------------------------------------------------------
\* the meeting patterns of the course or subsection that pushed the event e
PatternsBehind(term, e) ==
    IF e.src.sub = 0
    THEN term.courses[e.src.course].meetingPatterns
    ELSE term.courses[e.src.course].subsections[e.src.sub].meetingPatterns

\* the <<course, subsection, pattern>> places of the term whose meeting
\* pattern lists the weekday w (subsection 0 is the course itself)
PlacesOn(term, w) ==
    UNION { { <<ci, 0, k>> : k \in { j \in 1..Len(term.courses[ci].meetingPatterns) :
                                      Includes(term.courses[ci].meetingPatterns[j].weekdays, w) } }
            \cup
            UNION { { <<ci, si, k>> :
                        k \in { j \in 1..Len(term.courses[ci].subsections[si].meetingPatterns) :
                                 Includes(term.courses[ci].subsections[si].meetingPatterns[j].weekdays, w) } } :
                    si \in 1..Len(term.courses[ci].subsections) } :
            ci \in 1..Len(term.courses) }

----------------------------------------------------------------------------
(* The spreadsheet import *)

\* the two first cells of a supported export
ExportTitles == {<<"View My Courses">>, <<"My Enrolled Courses">>}

\* C21: when the workbook does not have exactly one sheet, or the first cell
\* of its sheet is neither 'View My Courses' nor 'My Enrolled Courses' (a
\* sheet without a row has no such cell), parseExcelCalendar ends at once
\* with an error value: nothing is thrown and no row has been scanned
C21_FormatError ==
    [][(excel.pc = "idle" /\ excel'.pc # "idle"
            /\ (excel'.sheetNames # 1 \/ Element(excel'.row, 0) \notin ExportTitles))
        => /\ excel'.pc = "done"
           /\ excel'.result.threw = "no"
           /\ excel'.result.error # Null
           /\ excel'.i = 0
           /\ excel'.st = ScanStart]_vars


\* the calendar of the scan state st has a term with a course
HasCourse(st) ==
    /\ st.calendar # NoCalendar
    /\ \E k \in 1..Len(st.calendar.terms) : st.calendar.terms[k].courses # <<>>

\* the step in which the call passes from its last row to lines 316-391
AfterLastRow == excel.pc = "scan" /\ excel'.pc = "done" /\ excel'.i = excel.i

\* C22: when the row scan ends and no term has a course, whether no data row
\* was accepted at all or the accepted rows were subsections only, the call
\* returns the error value 'No courses found...' and throws nothing
C22_NoCoursesFound ==
    [][(AfterLastRow /\ ~HasCourse(excel.st))
        => /\ excel'.result.threw = "no"
           /\ excel'.result.error
                = <<"No courses found. Check that your export is from the correct page.">>]_vars

\* the part of C22 the code keeps: the scan chose a calendar, its rows were
\* subsections without a parent course, and the call returns the error value
C22_OrphansOnly ==
    [][(AfterLastRow /\ ~HasCourse(excel.st) /\ excel.st.calendar # NoCalendar)
        => /\ excel'.result.threw = "no"
           /\ excel'.result.error
                = <<"No courses found. Check that your export is from the correct page.">>]_vars


\* the row is read as a data row by the scan state st: it is no title and no
\* marker row, the section is enrolled or completed, no column labels are
\* awaited and the seven indices are resolved (lines 77-149)
IsDataRow(st, row) ==
    /\ \A k \in 1..Len(SectionTitles) : Element(row, 0) # SectionTitles[k][1]
    /\ ~(st.sectionType = "enrolled" /\ Element(row, 6) = <<"Enrolled Sections">>)
    /\ ~(st.sectionType = "completed" /\ Element(row, 5) = <<"Completed Sections">>)
    /\ st.sectionType \in {"enrolled", "completed"}
    /\ ~st.parseIndices
    /\ ~Unresolved(st.index)

\* a pass of the loop: the row excel'.row is read in the scan state excel.st
RowStep == excel.pc = "scan" /\ excel'.i = excel.i + 1

\* a pass of the loop that reads a data row
DataStep == RowStep /\ IsDataRow(excel.st, excel'.row)

\* the cells of the data row just read
DataRead == DataOf(excel'.row, excel.st.index)

\* the places <<term, course>> of the courses of the calendar of st
CoursePlaces(st) ==
    IF st.calendar = NoCalendar THEN {}
    ELSE UNION { {<<k, c>> : c \in 1..Len(st.calendar.terms[k].courses)} :
                    k \in 1..Len(st.calendar.terms) }

\* the number of terms of the calendar of st
TermCount(st) == IF st.calendar = NoCalendar THEN 0 ELSE Len(st.calendar.terms)

\* the pass has added no course and no pending subsection
NothingAdded ==
    /\ CoursePlaces(excel'.st) = CoursePlaces(excel.st)
    /\ excel'.st.pendingSubsections = excel.st.pendingSubsections

\* C23: a data row whose Registration Status is neither 'Registered' nor
\* 'Completed' adds no course and no subsection to the calendar
C23_OnlyRegistered ==
    [][(DataStep /\ DataRead.registrationStatus \notin {<<"Registered">>, <<"Completed">>})
        => NothingAdded]_vars


IsBoundary(row) == \E k \in 1..Len(SectionTitles) : Element(row, 0) = SectionTitles[k][1]

BlankField ==
    \/ ~Truthy(DataRead.courseNameNumber) \/ ~Truthy(DataRead.courseSection)
    \/ ~Truthy(DataRead.registrationStatus) \/ ~Truthy(DataRead.instructionalFormat)
    \/ DataRead.startDate = Invalid \/ DataRead.endDate = Invalid

\* the pass has pushed exactly one warning
OneWarning == Len(excel'.st.warnings) = Len(excel.st.warnings) + 1

\* C27: a data row with a blank required field, a blank or unparseable Start
\* Date or End Date included, is rejected: the pass throws nothing, pushes one
\* warning and adds no course, no pending subsection and no term
C27_BlankFieldRejected ==
    [][(DataStep /\ BlankField)
        => /\ excel'.st.threw = "no"
           /\ OneWarning
           /\ NothingAdded
           /\ TermCount(excel'.st) = TermCount(excel.st)]_vars

\* the part of C27 the code keeps: a blank course listing, section,
\* registration status or instructional format gives the warning 'Missing
\* data for course ...' and leaves the rest of the scan state alone
C27_BlankTextRejected ==
    [][(DataStep /\ (\/ ~Truthy(DataRead.courseNameNumber) \/ ~Truthy(DataRead.courseSection)
                     \/ ~Truthy(DataRead.registrationStatus)
                     \/ ~Truthy(DataRead.instructionalFormat)))
        => /\ OneWarning
           /\ excel'.st = [excel.st EXCEPT !.warnings = excel'.st.warnings]]_vars


\* a line of the Meeting Patterns cell of the data row just read did not parse
BadPatternLine ==
    \E k \in 1..Len(DataRead.meetingPatterns) : IsError(DataRead.meetingPatterns[k])

\* C28: a data row with a meeting pattern line that does not parse is
\* rejected as a whole with one warning: the pass throws nothing, pushes one
\* warning and adds no course and no pending subsection, so none of the lines
\* that did parse is kept
C28_BadLineRejectsRow ==
    [][(DataStep /\ BadPatternLine)
        => /\ excel'.st.threw = "no"
           /\ OneWarning
           /\ NothingAdded]_vars

\* the part of C28 the code keeps: the same for the rows whose two date cells
\* hold dates
C28_DatedRowRejected ==
    [][(DataStep /\ BadPatternLine
            /\ DataRead.startDate # Invalid /\ DataRead.endDate # Invalid)
        => /\ excel'.st.threw = "no"
           /\ OneWarning
           /\ NothingAdded]_vars


\* C29: a data row that is rejected, for a blank required field or for a
\* meeting pattern line that does not parse, chooses no calendar, neither a
\* built-in one nor the custom one, and creates no term: the choice is left
\* to the first row that has all required fields and whose lines all parse
C29_RejectedRowChoosesNothing ==
    [][(DataStep /\ (BlankField \/ BadPatternLine))
        => /\ excel'.st.calendar = excel.st.calendar
           /\ excel'.st.isCustomCalendar = excel.st.isCustomCalendar]_vars


\* the data row just read is accepted: no required field is blank and every
\* line of its meeting patterns parses
RowAccepted == ~BlankField /\ ~BadPatternLine

\* the terms the row is matched against: those of the calendar chosen before
\* the row, else those of the calendar the row chooses, a built-in one with
\* its terms without courses or the blank one without terms
TermsBefore ==
    IF excel.st.calendar # NoCalendar THEN excel.st.calendar.terms
    ELSE IF excel'.st.isCustomCalendar THEN <<>>
    ELSE [k \in 1..Len(excel'.st.calendar.terms) |->
            [excel'.st.calendar.terms[k] EXCEPT !.courses = <<>>]]

\* the places in terms of the terms whose days from start to end, both
\* included, hold the days from startDate to endDate
Holders(terms, startDate, endDate) ==
    {k \in 1..Len(terms) : UTCDate(terms[k].start) <= startDate
                           /\ endDate <= UTCDate(terms[k].end)}

\* the row just read has become the next course of the term at place t, or,
\* when it is no lecture and no workshop, a pending subsection of that term
LandsIn(t, terms) ==
    IF DataRead.instructionalFormat \in {<<"Lecture">>, <<"Workshop">>}
    THEN /\ CoursePlaces(excel'.st)
                = CoursePlaces(excel.st)
                    \cup {<<t, 1 + (IF t <= Len(terms) THEN Len(terms[t].courses) ELSE 0)>>}
         /\ excel'.st.pendingSubsections = excel.st.pendingSubsections
    ELSE /\ CoursePlaces(excel'.st) = CoursePlaces(excel.st)
         /\ Len(excel'.st.pendingSubsections) = Len(excel.st.pendingSubsections) + 1
         /\ excel'.st.pendingSubsections[Len(excel'.st.pendingSubsections)].term = t
         /\ SubSeq(excel'.st.pendingSubsections, 1, Len(excel.st.pendingSubsections))
                = excel.st.pendingSubsections

\* id, start, end and dates of the terms are what they were
TermsKept(terms) ==
    \A k \in 1..Len(terms) :
        [excel'.st.calendar.terms[k] EXCEPT !.courses = <<>>]
            = [terms[k] EXCEPT !.courses = <<>>]

\* C30: an accepted row goes to the first term, in the order of the
\* calendar's terms, whose days from start to end hold the row's days from
\* Start Date to End Date, both ends included.  When no term holds them, a
\* custom calendar gets one new term, last in the list, from the row's Start
\* Date to its End Date, and the row goes there; under a built-in calendar the
\* row is skipped with one warning and no term is added.  No term changes
\* its id, start, end or dates
C30_FirstContainingTerm ==
    [][(DataStep /\ RowAccepted)
        => LET terms == TermsBefore
               holders == Holders(terms, DataRead.startDate, DataRead.endDate)
               after == excel'.st.calendar.terms
           IN  /\ excel'.st.threw = "no"
               /\ TermsKept(terms)
               /\ holders # {}
                    => /\ Len(after) = Len(terms)
                       /\ LandsIn(CHOOSE k \in holders : \A j \in holders : k <= j, terms)
               /\ (holders = {} /\ excel'.st.isCustomCalendar)
                    => /\ Len(after) = Len(terms) + 1
                       /\ after[Len(after)].start = FormatDate(DataRead.startDate)
                       /\ after[Len(after)].end = FormatDate(DataRead.endDate)
                       /\ LandsIn(Len(after), terms)
               /\ (holders = {} /\ ~excel'.st.isCustomCalendar)
                    => /\ Len(after) = Len(terms)
                       /\ OneWarning
                       /\ NothingAdded]_vars

\* the lecture of 2025-08-21 to 2025-10-10, the very days of A25, is a course
\* of A25, the first term of the built-in calendar, and not of F25, the third,
\* which holds those days too
C30_Witness ==
    /\ excel.pc = "scan"
    /\ excel.row = Rows.lecture
    /\ excel.st.calendar # NoCalendar /\ ~excel.st.isCustomCalendar
    /\ excel.st.calendar.terms[1].id = <<"A", "2", "5">>
    /\ excel.st.calendar.terms[1].start = <<"2", "0", "2", "5", "-", "0", "8", "-", "2", "1">>
    /\ excel.st.calendar.terms[1].end = <<"2", "0", "2", "5", "-", "1", "0", "-", "1", "0">>
    /\ excel.st.calendar.terms[3].id = <<"F", "2", "5">>
    /\ CoursePlaces(excel.st) = {<<1, 1>>}

\* a custom calendar: the row of June 1 to June 30 made the first term, the
\* row of June 10 to June 20 is the second course of that term
C30_WitnessCustom ==
    /\ excel.pc = "scan"
    /\ excel.row = Rows.june
    /\ excel.st.isCustomCalendar
    /\ Len(excel.st.calendar.terms) = 1
    /\ excel.st.calendar.terms[1].start = <<"2", "0", "2", "5", "-", "0", "6", "-", "0", "1">>
    /\ excel.st.calendar.terms[1].end = <<"2", "0", "2", "5", "-", "0", "6", "-", "3", "0">>
    /\ CoursePlaces(excel.st) = {<<1, 1>>, <<1, 2>>}

\* a built-in calendar: the row of the winter break lies in no term and is
\* skipped with the warning, the lecture read before it stays the one course
C30_WitnessSkipped ==
    /\ excel.pc = "scan"
    /\ excel.row = Rows.winter
    /\ excel.st.calendar # NoCalendar /\ ~excel.st.isCustomCalendar
    /\ CoursePlaces(excel.st) = {<<1, 1>>}
    /\ Len(excel.st.warnings) = 1


\* no course of the calendar of st has a subsection
NoSubsections(st) ==
    \A p \in CoursePlaces(st) : st.calendar.terms[p[1]].courses[p[2]].subsections = <<>>

\* the row is a data row of the scan state st with every required field
\* present, both dates parsed and every meeting pattern line parsed
AcceptedBy(st, row) ==
    /\ IsDataRow(st, row)
    /\ Truthy(DataOf(row, st.index).courseNameNumber)
    /\ Truthy(DataOf(row, st.index).courseSection)
    /\ Truthy(DataOf(row, st.index).registrationStatus)
    /\ Truthy(DataOf(row, st.index).instructionalFormat)
    /\ DataOf(row, st.index).startDate # Invalid
    /\ DataOf(row, st.index).endDate # Invalid
    /\ \A k \in 1..Len(DataOf(row, st.index).meetingPatterns) :
            ~IsError(DataOf(row, st.index).meetingPatterns[k])

\* the row gives a top-level course
IsCourseRow(st, row) ==
    DataOf(row, st.index).instructionalFormat \in {<<"Lecture">>, <<"Workshop">>}

\* what the call returns when the sheet ends after the rows first and second
\* are read, in this order, in the scan state st at place i
ImportAfter(st, first, second, i) == Finish(ScanRow(ScanRow(st, first, i), second, i + 1))

\* the pairs of rows of Rows that the scan state st accepts, the first the
\* row of a course, the second a row of another format with the same course
\* listing
ParentPairs(st) ==
    { pair \in {<<Rows[a], Rows[b]>> : a, b \in DOMAIN Rows} :
        /\ AcceptedBy(st, pair[1]) /\ AcceptedBy(st, pair[2])
        /\ IsCourseRow(st, pair[1]) /\ ~IsCourseRow(st, pair[2])
        /\ DataOf(pair[1], st.index).courseNameNumber
                = DataOf(pair[2], st.index).courseNameNumber }

\* the two calls end alike: the same exception, or the same error value, or
\* the same calendar
SameImport(x, y) == x.threw = y.threw /\ x.error = y.error /\ x.calendar = y.calendar

\* C31: rows of the formats Lecture and Workshop give courses, every other
\* accepted row waits until the scan is over, so that during the scan no
\* course has a subsection and the call returns the same calendar whether the
\* row of a subsection stands before or after the row of its course
C31_OrderFree ==
    excel.pc = "scan" =>
        /\ NoSubsections(excel.st)
        /\ \A pair \in ParentPairs(excel.st) :
                SameImport(ImportAfter(excel.st, pair[1], pair[2], excel.i),
                           ImportAfter(excel.st, pair[2], pair[1], excel.i))

\* the part of C31 the code keeps: no subsection is attached during the scan,
\* and under a built-in calendar the order of the two rows does not matter
C31_OrderFreeBuiltIn ==
    excel.pc = "scan" =>
        /\ NoSubsections(excel.st)
        /\ (excel.st.calendar # NoCalendar /\ ~excel.st.isCustomCalendar) =>
                \A pair \in ParentPairs(excel.st) :
                    SameImport(ImportAfter(excel.st, pair[1], pair[2], excel.i),
                               ImportAfter(excel.st, pair[2], pair[1], excel.i))


\* the course number and the course name of a pending subsection: the parts
\* of its course listing before and after ' - '
ListingNumber(s) == Element(SplitOn(s.courseNameNumber, <<" ", "-", " ">>), 0)
ListingName(s) == Element(SplitOn(s.courseNameNumber, <<" ", "-", " ">>), 1)

\* the place, in the term of the pending subsection s, of the course C32
\* gives it to: of the courses with its number the first with its name, the
\* first of all when none has its name, 0 when the term has no such course
ParentOf(st, s) ==
    LET courses == st.calendar.terms[s.term].courses
        numbered == {c \in 1..Len(courses) : courses[c].number = ListingNumber(s)}
        named == {c \in numbered : courses[c].name = ListingName(s)}
    IN  IF numbered = {} THEN 0
        ELSE IF named # {} THEN CHOOSE c \in named : \A j \in named : c <= j
        ELSE CHOOSE c \in numbered : \A j \in numbered : c <= j

\* the subsections C32 gives the course at place c of the term at place t:
\* one for each pending subsection of that term whose parent it is, in the
\* order of the rows
SubsectionsFor(st, t, c) ==
    LET mine == SelectSeq(st.pendingSubsections,
                          LAMBDA s : s.term = t /\ ParentOf(st, s) = c)
    IN  [k \in 1..Len(mine) |->
            [name |-> extractSubsectionName(mine[k].courseSection),
             meetingPatterns |-> mine[k].meetingPatterns, except |-> <<>>]]

RECURSIVE SubsectionCount(_, _)
\* the number of subsections of the terms of cal from the k-th on
SubsectionCount(cal, k) ==
    IF k > Len(cal.terms) THEN 0
    ELSE Cardinality(UNION { {<<c, n>> : n \in 1..Len(cal.terms[k].courses[c].subsections)} :
                                c \in 1..Len(cal.terms[k].courses) })
         + SubsectionCount(cal, k + 1)

C32_WitnessFirst ==
    /\ excel.pc = "done"
    /\ excel.result.calendar # NoCalendar
    /\ Len(excel.result.calendar.terms) = 1
    /\ Len(excel.result.calendar.terms[1].courses) = 1
    /\ excel.result.calendar.terms[1].courses[1].name = <<"B">>
    /\ Len(excel.result.calendar.terms[1].courses[1].subsections) = 1


\* the call has returned a custom calendar
CustomReturned ==
    excel.pc = "done" /\ excel.result.calendar # NoCalendar /\ excel.st.isCustomCalendar

\* C33: a custom calendar is returned with terms that all have a course, in
\* the order of their start dates, the i-th with the id 'Term i', with the
\* range from the least start to the greatest end of its terms, and with the
\* warning that no known calendar matched as the first warning
C33_CustomCalendar ==
    CustomReturned =>
        LET cal == excel.result.calendar
            places == 1..Len(cal.terms)
        IN  /\ places # {}
            /\ \A k \in places : cal.terms[k].courses # <<>>
            /\ \A j, k \in places : j < k => UTCDate(cal.terms[j].start) <= UTCDate(cal.terms[k].start)
            /\ \A k \in places : cal.terms[k].id = <<"T", "e", "r", "m", " ">> \o JsonNat(k)
            /\ \A j, k \in places : j # k => cal.terms[j].id # cal.terms[k].id
            /\ \A k \in places : /\ cal.range[1] <= UTCDate(cal.terms[k].start)
                                 /\ UTCDate(cal.terms[k].end) <= cal.range[2]
            /\ \E k \in places : cal.range[1] = UTCDate(cal.terms[k].start)
            /\ \E k \in places : cal.range[2] = UTCDate(cal.terms[k].end)
            /\ excel.result.warnings # <<>>
            /\ excel.result.warnings[1].title
                    = <<"Warning: couldn't match a known WPI academic calendar">>

\* the workshop of June 10 to June 20 was read before the lecture of June 1
\* to June 30: the returned calendar has the term of the lecture first, as
\* Term 1, the term of the workshop as Term 2, and the warning for the
\* workshop without meeting patterns after the warning of the custom calendar
C33_Witness ==
    /\ CustomReturned
    /\ Len(excel.result.calendar.terms) = 2
    /\ excel.result.calendar.terms[1].id = <<"T", "e", "r", "m", " ", "1">>
    /\ excel.result.calendar.terms[1].start = <<"2", "0", "2", "5", "-", "0", "6", "-", "0", "1">>
    /\ excel.result.calendar.terms[1].courses[1].number = <<"M", "A", " ", "2">>
    /\ excel.result.calendar.terms[2].id = <<"T", "e", "r", "m", " ", "2">>
    /\ excel.result.calendar.terms[2].start = <<"2", "0", "2", "5", "-", "0", "6", "-", "1", "0">>
    /\ excel.result.calendar.range = <<UTCDate(<<"2", "0", "2", "5", "-", "0", "6", "-", "0", "1">>),
                                       UTCDate(<<"2", "0", "2", "5", "-", "0", "6", "-", "3", "0">>)>>
    /\ Len(excel.result.warnings) = 2


\* a time of day in 24-hour form, HH:mm
IsTimeOfDay(t) ==
    /\ Len(t) = 5 /\ t[3] = ":"
    /\ \A k \in {1, 2, 4, 5} : IsDigit(t[k])
    /\ NumberOfDigits(SubSeq(t, 1, 2)) \in 0..23
    /\ NumberOfDigits(SubSeq(t, 4, 5)) \in 0..59

\* the weekday a weekday text names, by the table of parseWeekday: 0 to 6, or
\* -1 when the text is none of the fourteen names
WeekdayNamed(text) ==
    LET named == {k \in 1..Len(WeekdayTable) :
                    WeekdayTable[k][2] \in 0..6 /\ WeekdayTable[k][1] = Trim(ToLowerCase(text))}
    IN  IF named = {} THEN 0 - 1 ELSE WeekdayTable[CHOOSE k \in named : TRUE][2]

\* the text has a weekday that is unknown or stands twice, or not two or
\* three parts between its bars
IllFormed(pattern) ==
    LET parts == SplitOn(pattern, <<"|">>)
        names == SplitOn(parts[1], <<"-">>)
    IN  \/ Len(parts) \notin {2, 3}
        \/ \E k \in 1..Len(names) : WeekdayNamed(names[k]) = 0 - 1
        \/ \E j, k \in 1..Len(names) : j # k /\ WeekdayNamed(names[j]) = WeekdayNamed(names[k])

\* C34: what parseMeetingPattern returns is an error or a meeting pattern with
\* one weekday or more, none twice, each from 0 to 6, and with two times of
\* day HH:mm, the start not after the end; and it is an error for a text with
\* a repeated or unknown weekday or with other than two or three parts
C34_PatternInvariant ==
    parsing.pc = "done" =>
        /\ ~IsError(parsing.result) =>
            LET mp == parsing.result
            IN  /\ mp.weekdays # <<>>
                /\ \A j, k \in 1..Len(mp.weekdays) : j # k => mp.weekdays[j] # mp.weekdays[k]
                /\ \A k \in 1..Len(mp.weekdays) : mp.weekdays[k] \in 0..6
                /\ IsTimeOfDay(mp.startTime) /\ IsTimeOfDay(mp.endTime)
                /\ ~StrLess(mp.endTime, mp.startTime)
        /\ IllFormed(parsing.pattern) => IsError(parsing.result)

\* the text names weekdays by the fourteen names of the table only
KnownWeekdays(pattern) ==
    LET names == SplitOn(SplitOn(pattern, <<"|">>)[1], <<"-">>)
    IN  \A k \in 1..Len(names) :
            Trim(ToLowerCase(names[k])) \notin {<<"c", "o", "n", "s", "t", "r", "u", "c", "t", "o", "r">>,
                                                <<"_", "_", "p", "r", "o", "t", "o", "_", "_">>}

\* the part of C34 the code keeps: the same for the texts whose weekdays are
\* not the names constructor and __proto__
C34_OwnNames ==
    (parsing.pc = "done" /\ KnownWeekdays(parsing.pattern)) =>
        /\ ~IsError(parsing.result) =>
            LET mp == parsing.result
            IN  /\ mp.weekdays # <<>>
                /\ \A j, k \in 1..Len(mp.weekdays) : j # k => mp.weekdays[j] # mp.weekdays[k]
                /\ \A k \in 1..Len(mp.weekdays) : mp.weekdays[k] \in 0..6
                /\ IsTimeOfDay(mp.startTime) /\ IsTimeOfDay(mp.endTime)
                /\ ~StrLess(mp.endTime, mp.startTime)
        /\ IllFormed(parsing.pattern) => IsError(parsing.result)

\* a text of several weekdays and two times in order was parsed
C34_Parsed ==
    /\ parsing.pc = "done"
    /\ ~IsError(parsing.result)
    /\ parsing.result.weekdays = <<1, 3, 5>>
    /\ parsing.result.startTime = <<"1", "3", ":", "0", "0">>
    /\ parsing.result.endTime = <<"1", "4", ":", "5", "0">>


\* C35: the events of a generateICal run on a calendar that passes validation
\* have uids that all differ
C35_UniqueUids ==
    PassedValidation =>
        \A j, k \in 1..Len(last.events) : j # k => last.events[j].uid # last.events[k].uid

\* the part of C35 the code keeps: the events one term has on one date for
\* its overrides have uids that differ
C35_UniqueOverrideUids ==
    PassedValidation =>
        \A ti \in Terms : \A d \in TermDates(last.cal.terms[ti]) :
            LET here == EventsOn(ti, d, {"no-class", "follow"})
            IN  \A j, k \in 1..Len(here) : j # k => here[j].uid # here[k].uid


\* the resume of the only run still suspended, after a later run has started:
\* from here on every started run has finished
LastOverlappingResume ==
    /\ Len(runs) = 1
    /\ runs' = <<>>
    /\ last.seq > runs[1].seq

\* C36: when generateICal runs overlap, once every started run has finished
\* ical and errors reflect the most recent calendar value: ical is non-null
\* only if that calendar validates with zero errors, and it is then the feed
\* of that calendar and not of an earlier one
C36_LatestCalendarWins ==
    [][LastOverlappingResume
       => /\ ical' # NullFeed
               => /\ Len(validate(calendar').errors) = 0
                  /\ ical'.src.cal = calendar'
          /\ Len(validate(calendar').errors) > 0
               => errors' = validate(calendar').errors]_vars

\* the feed part alone: after the last overlapping resume a feed that is set
\* belongs to a calendar the validator accepts
C36_FeedOnlyIfValid ==
    [][LastOverlappingResume
       => (ical' # NullFeed => Len(validate(calendar').errors) = 0)]_vars


(* The editor *)

\* what parseExcelCalendar returns for the workbook file
ParsedFrom(file) == parseExcelCalendar(file.sheetNames, file.sheet)

\* the import of file succeeds: a file is selected and parseExcelCalendar
\* returns a calendar
Succeeds(file) ==
    /\ file.selected
    /\ ParsedFrom(file).threw = "no"
    /\ ParsedFrom(file).error = Null

\* C37: after every successful importExcel importWarnings is exactly the
\* warning list of that import, empty when the import produced no warning
\* whatever an earlier import had left; a failed import leaves calendar and
\* importWarnings unchanged
C37_ImportWarningsReplaced ==
    [][\A file \in ExcelFiles :
        importExcel(file)
        => IF Succeeds(file)
           THEN importWarnings' = ParsedFrom(file).warnings
           ELSE calendar' = calendar /\ importWarnings' = importWarnings]_vars

\* the part that holds: an import with a warning replaces the list, and a
\* failed import leaves calendar and importWarnings as they were
C37_WarningsReplacedOrKept ==
    [][\A file \in ExcelFiles :
        importExcel(file)
        => IF ~Succeeds(file)
           THEN calendar' = calendar /\ importWarnings' = importWarnings
           ELSE ParsedFrom(file).warnings # <<>>
                => importWarnings' = ParsedFrom(file).warnings]_vars


\* the built-in terms, by calendar and place
BuiltInTerms ==
    UNION {{<<c, k>> : k \in 1..Len(academicCalendars[c].terms)} :
                c \in 1..Len(academicCalendars)}

\* C38: the registry academicCalendars is read-only: after any sequence of
\* editor operations every built-in term still has zero courses and its
\* original override dates
C38_RegistryReadOnly ==
    \A ref \in BuiltInTerms :
        /\ registry[ref[1]].terms[ref[2]].courses = <<>>
        /\ registry[ref[1]].terms[ref[2]].dates = academicCalendars[ref[1]].terms[ref[2]].dates

\* what does hold: the operations that write no term leave the registry as it
\* is, and a term that is an object of the calendar's own is written alone
C38_OwnTermsOnly ==
    [][registry' # registry
       => \E t \in 1..Len(calendar.terms) :
            /\ RefOf(t) # <<>>
            /\ calendar'.terms[t] # calendar.terms[t]
            /\ registry'[RefOf(t)[1]].terms[RefOf(t)[2]] = calendar'.terms[t]]_vars


\* the row is the marker row of the section: 'Enrolled Sections' in the
\* seventh cell within the enrolled section, 'Completed Sections' in the sixth
\* within the completed one
IsMarker(section, row) ==
    \/ section = "enrolled" /\ Element(row, 6) = <<"Enrolled Sections">>
    \/ section = "completed" /\ Element(row, 5) = <<"Completed Sections">>

\* the row just read is interpreted as the row of column labels (the branch
\* of lines 116-141)
HeaderStep ==
    /\ RowStep
    /\ ~IsBoundary(excel'.row)
    /\ ~IsMarker(excel.st.sectionType, excel'.row)
    /\ excel.st.sectionType \in {"enrolled", "completed"}
    /\ excel.st.parseIndices

\* C39: a row is interpreted as the column-header row only if it directly
\* follows the marker row of the same section: the flag a marker row sets
\* does not survive a section-boundary row
C39_HeaderFollowsMarker ==
    [][/\ HeaderStep => IsMarker(excel.st.sectionType, excel.row)
       /\ (RowStep /\ IsBoundary(excel'.row)) => ~excel'.st.parseIndices]_vars

\* what does hold: the row before a row read as the column labels is a marker
\* row or a boundary row, and the row of labels uses the flag up
C39_HeaderAfterMarkerOrBoundary ==
    [][HeaderStep
       => /\ \/ IsBoundary(excel.row)
             \/ \E section \in {"enrolled", "completed"} : IsMarker(section, excel.row)
          /\ ~excel'.st.parseIndices
          /\ excel'.st = ParseIndices(excel.st, excel'.row, excel.i)]_vars


\* parseExcelCalendar has returned a calendar
CalendarReturned ==
    /\ excel.pc = "done"
    /\ excel.result.threw = "no"
    /\ excel.result.error = Null

\* the calendar importExcel takes from the result
ImportedCalendar == [name |-> excel.result.calendar.name, terms |-> excel.result.calendar.terms]

\* C40: every calendar that parseExcelCalendar returns without error is
\* consumable by the validator: validate on it returns zero errors
C40_ImportValidates ==
    CalendarReturned => validate(ImportedCalendar).errors = <<>>


\* what does hold of the calendars returned: the validator finds no fault
\* but a course without a name (a course listing without ' - ') and a term
\* of a custom calendar that ends before it starts (a row whose end date lies
\* before its start date)
C40_NamesAndOrderOnly ==
    CalendarReturned
        => \A k \in 1..Len(validate(ImportedCalendar).errors) :
            LET msg == validate(ImportedCalendar).errors[k]
            IN  msg[Len(msg)] \in {": missing/invalid name", ": start > end"}

====
